---- MODULE Spec2Model ----
(***************************************************************************)
(* Contract analysis pipeline: risk detection and scoring                  *)
(* (utils/risk_detection.py), contract classification                      *)
(* (utils/contract_classifier.py), clause segmentation and definitions     *)
(* (utils/clause_extraction.py), entity extraction (utils/ner.py), clause  *)
(* explanations (utils/clause_explainer.py), text extraction               *)
(* (utils/text_extraction.py), the PDF report (utils/pdf_report.py) and    *)
(* the Streamlit script that runs them (streamlit_app.py).                 *)
(*                                                                         *)
(* Texts are strings; Len, SubSeq and \o are the string operations.        *)
(* Positions are 1-based here and 0-based in the Python source: a Python   *)
(* offset o is the position o+1, and the Python slice text[a:b] is         *)
(* SubSeq(text, a+1, b).                                                   *)
(***************************************************************************)
EXTENDS Integers, Sequences, FiniteSets, TLC

VARIABLES
    text,            \* the text argument of the analyzer under study
    risks_arg,       \* the detected_risks argument of calculate_risk_score
    risk_result,     \* what calculate_risk_score returned, or None
    detected_risks,  \* RiskDetectionEngine.detected_risks
    classification,  \* what classify_contract returned, or None
    clauses,         \* what extract_clauses returned, or None
    called,          \* detect_risks has returned
    spans,           \* extract_clauses: the header offset and the locals
                     \* start and end of each clause
    definitions,     \* what extract_definitions returned, or None
    entities,        \* ContractNER.entities
    entities_result, \* what extract_entities returned, or None
    hash_order,      \* the iteration order of sets of strings in this process
    calls,           \* how many analyzer calls the client has made
    history,         \* the calls of the five analyzers so far: the analyzer,
                     \* its text argument and what it returned
    explanation,     \* the last call of explain_clause: its clause_type and
                     \* what it returned, or None
    alternatives,    \* the same for suggest_alternatives
    installed,       \* the optional libraries that can be imported
    uploaded_file,   \* st.session_state.uploaded_file
    raw_text,        \* st.session_state.raw_text
    analysis_results, \* st.session_state.analysis_results
    audit_logs,      \* the entries save_audit_log has written
    pdf_arg,         \* the analysis_results argument of generate_report
    pdf_failure,     \* the exception raised inside generate_report, or None
    pdf_bytes,       \* what generate_report returned, or None
    runs,            \* how many times the script has run
    rerun,           \* the widgets of the run that is due or under way: the
                     \* file in the uploader and the button pressed, or None
    script_pc,       \* the position of the run in the script, 0 between runs
    tab_order        \* the order in which the analysis tabs are run

\* An analyzer's result: None before the call returns, Some(v) after
None == <<>>
Some(v) == <<v>>

\* ner.py:12-22: the entities dict a new ContractNER holds
new_entities ==
    [parties |-> <<>>, dates |-> <<>>, amounts |-> <<>>, jurisdictions |-> <<>>,
     emails |-> <<>>, phone_numbers |-> <<>>, urls |-> <<>>]

\* The variables by the part of the program they belong to, and the values
\* they have while that part is not running
base_vars == <<risks_arg, risk_result, detected_risks, classification, clauses,
               called, spans>>

BaseIdle ==
    /\ risks_arg = <<>>
    /\ risk_result = None
    /\ detected_risks = <<>>
    /\ called = FALSE
    /\ classification = None
    /\ clauses = None
    /\ spans = <<>>

definitions_vars == <<definitions>>

DefinitionsIdle == definitions = None

entities_vars == <<entities, entities_result, hash_order>>

EntitiesIdle ==
    /\ entities = new_entities
    /\ entities_result = None
    /\ hash_order = "forward"

session_vars == <<calls, history>>

SessionIdle ==
    /\ calls = 0
    /\ history = <<>>

explainer_vars == <<explanation, alternatives>>

ExplainerIdle ==
    /\ explanation = None
    /\ alternatives = None

\* streamlit_app.py:27-34 and a process that has imported nothing optional
app_vars == <<installed, uploaded_file, raw_text, analysis_results, audit_logs,
              pdf_arg, pdf_failure, pdf_bytes, runs, rerun, script_pc,
              tab_order>>

\* streamlit_app.py:134-256: the analysis tabs in the order of the script
ScriptOrder == <<"tab2", "tab3", "tab4", "tab5">>

AppIdle ==
    /\ installed = {}
    /\ uploaded_file = None
    /\ raw_text = ""
    /\ analysis_results = <<>>
    /\ audit_logs = <<>>
    /\ pdf_arg = <<>>
    /\ pdf_failure = None
    /\ pdf_bytes = None
    /\ runs = 0
    /\ rerun = None
    /\ script_pc = 0
    /\ tab_order = ScriptOrder

front_vars == <<explainer_vars, app_vars>>

FrontIdle ==
    /\ ExplainerIdle
    /\ AppIdle

ext_vars == <<definitions_vars, entities_vars, session_vars, front_vars>>

ExtIdle ==
    /\ DefinitionsIdle
    /\ EntitiesIdle
    /\ SessionIdle
    /\ FrontIdle

vars == <<text, risks_arg, risk_result, detected_risks, classification, clauses,
          called, spans, ext_vars>>

----------------------------------------------------------------------------
(* Generic helpers *)

Min(a, b) == IF a <= b THEN a ELSE b
Max(a, b) == IF a >= b THEN a ELSE b

\* Python's seq[:n]
Take(s, n) == SubSeq(s, 1, Min(n, Len(s)))

\* The character of the string s at position i
Char(s, i) == SubSeq(s, i, i)

UpperLetters == "ABCDEFGHIJKLMNOPQRSTUVWXYZ"
LowerLetters == "abcdefghijklmnopqrstuvwxyz"

LowerMap ==
    [c \in {Char(UpperLetters, i) : i \in 1..26} |->
        Char(LowerLetters, CHOOSE i \in 1..26 : Char(UpperLetters, i) = c)]

LowerChar(c) == IF c \in DOMAIN LowerMap THEN LowerMap[c] ELSE c

\* Python's str.lower() on ASCII text
RECURSIVE Lower(_)
Lower(s) ==
    IF Len(s) = 0 THEN ""
    ELSE IF Len(s) = 1 THEN LowerChar(s)
    ELSE LET h == Len(s) \div 2
         IN  Lower(SubSeq(s, 1, h)) \o Lower(SubSeq(s, h + 1, Len(s)))

\* the string kw occurs in s at position i
OccursAt(s, kw, i) ==
    /\ i + Len(kw) - 1 <= Len(s)
    /\ SubSeq(s, i, i + Len(kw) - 1) = kw

\* Python's `kw in s` on strings
Contains(s, kw) == \E i \in 1..(Len(s) - Len(kw) + 1) : OccursAt(s, kw, i)

----------------------------------------------------------------------------
(* RiskDetectionEngine.calculate_risk_score *)

RiskLevels == {"low", "medium", "high"}

\* risk_detection.py:141-147 with the severity_score average in place of
\* the level-count weights
risk_score_avg_severity(risks) ==
    LET RECURSIVE Sum(_)
        Sum(i) == IF i = 0 THEN 0 ELSE risks[i].severity_score + Sum(i - 1)
    IN  Min(100, Sum(Len(risks)) \div Max(1, Len(risks)))

\* risk_detection.py:141-147
risk_score(risks) ==
    LET high_count ==
            Cardinality({i \in 1..Len(risks) : risks[i].risk_level = "high"})
        medium_count ==
            Cardinality({i \in 1..Len(risks) : risks[i].risk_level = "medium"})
        low_count ==
            Cardinality({i \in 1..Len(risks) : risks[i].risk_level = "low"})
        score == (high_count * 30 + medium_count * 15 + low_count * 5)
                     \div Max(1, Len(risks))
    IN  Min(100, score)

\* risk_detection.py:149-154 with the thresholds of the 0-30 scale
risk_category_low_thresholds(score) ==
    IF score >= 20 THEN "High Risk"
    ELSE IF score >= 10 THEN "Medium Risk"
    ELSE "Low Risk"

\* risk_detection.py:149-154
risk_category(score) ==
    IF score >= 70 THEN "High Risk"
    ELSE IF score >= 40 THEN "Medium Risk"
    ELSE "Low Risk"

\* risk_detection.py:127-156
calculate_risk_score(risks) ==
    IF Len(risks) = 0
    THEN <<0, "Low Risk">>
    ELSE <<risk_score(risks), risk_category(risk_score(risks))>>

----------------------------------------------------------------------------
(* Specification of calculate_risk_score over bounded lists of findings *)

MaxFindings == 4

\* severity_score values carried by the findings; the code never reads them
SeverityValues == {25, 85}

ArgFinding(level, sev) ==
    [type |-> "Penalty Clauses", risk_level |-> level,
     description |-> "Clauses imposing penalties for breach",
     evidence |-> "penalty.", severity_score |-> sev]

ArgFindings == {ArgFinding(l, s) : l \in RiskLevels, s \in SeverityValues}

ArgLists == UNION {[1..n -> ArgFindings] : n \in 0..MaxFindings}

InitScore ==
    /\ risks_arg \in ArgLists
    /\ risk_result = None
    /\ text = ""
    /\ detected_risks = <<>>
    /\ called = FALSE
    /\ classification = None
    /\ clauses = None
    /\ spans = <<>>
    /\ ExtIdle

CalculateRiskScore ==
    /\ risk_result = None
    /\ risk_result' = Some(calculate_risk_score(risks_arg))
    /\ UNCHANGED <<text, risks_arg, detected_risks, classification, clauses, called,
                   spans>>
    /\ UNCHANGED ext_vars

NextScore == CalculateRiskScore

SpecScore == InitScore /\ [][NextScore]_vars

----------------------------------------------------------------------------
(* Claims about calculate_risk_score *)

\* how many findings of the list carry the level
RECURSIVE LevelCount(_, _)
LevelCount(risks, level) ==
    IF Len(risks) = 0 THEN 0
    ELSE (IF Head(risks).risk_level = level THEN 1 ELSE 0)
         + LevelCount(Tail(risks), level)

\* C1: for a list holding h high, m medium and l low findings with
\* h+m+l > 0 the returned score is min(100, floor((30h+15m+5l)/(h+m+l))),
\* for the empty list it is 0; the severity_score fields play no part.
C1_ScoreFormula ==
    risk_result # None =>
        LET h == LevelCount(risks_arg, "high")
            m == LevelCount(risks_arg, "medium")
            l == LevelCount(risks_arg, "low")
        IN  IF h + m + l > 0
            THEN risk_result[1][1] = Min(100, (30 * h + 15 * m + 5 * l) \div (h + m + l))
            ELSE risk_result[1][1] = 0

\* a scored list mixing all three levels whose severity_score values
\* disagree with the levels
C1_Witness ==
    /\ risk_result # None
    /\ \A lv \in RiskLevels : LevelCount(risks_arg, lv) > 0
    /\ \E i \in 1..Len(risks_arg) :
          risks_arg[i].risk_level = "low" /\ risks_arg[i].severity_score = 85
    /\ risk_result[1][1] = 13

\* C2: the category is 'High Risk' for a score >= 70, 'Medium Risk' for a
\* score in [40, 70) and 'Low Risk' below; the empty list gives (0, Low Risk).
C2_CategoryThresholds ==
    risk_result # None =>
        /\ risk_result[1][2] = (IF risk_result[1][1] >= 70 THEN "High Risk"
                             ELSE IF risk_result[1][1] >= 40 THEN "Medium Risk"
                             ELSE "Low Risk")
        /\ Len(risks_arg) = 0 => risk_result[1] = <<0, "Low Risk">>

\* an all-high list scored at the top of the scale
C2_Witness ==
    /\ risk_result # None
    /\ Len(risks_arg) > 0
    /\ risk_result[1][1] = 30
    /\ risk_result[1][2] = "Low Risk"

\* C23: for every non-empty list of findings whose levels are low, medium
\* or high the score lies between 5 and 30, it is the unclamped quotient,
\* and the category is 'Low Risk', never 'Medium Risk' or 'High Risk'.
C23_ScoreRangeAlwaysLow ==
    (/\ risk_result # None
     /\ Len(risks_arg) > 0
     /\ \A i \in 1..Len(risks_arg) : risks_arg[i].risk_level \in RiskLevels)
    => /\ risk_result[1][1] \in 5..30
       /\ risk_result[1][1] =
              (30 * LevelCount(risks_arg, "high")
               + 15 * LevelCount(risks_arg, "medium")
               + 5 * LevelCount(risks_arg, "low")) \div Len(risks_arg)
       /\ risk_result[1][2] = "Low Risk"

\* a list of high findings only, scored at the top of the range, and still low
C23_Witness ==
    /\ risk_result # None
    /\ Len(risks_arg) = MaxFindings
    /\ \A i \in 1..Len(risks_arg) : risks_arg[i].risk_level = "high"
    /\ risk_result[1] = <<30, "Low Risk">>

----------------------------------------------------------------------------
(* ContractClassifier *)

\* contract_classifier.py:11-44, in declaration order
CLASSIFICATION_PATTERNS == <<
    [name |-> "Employment",
     keywords |-> <<"employment", "employee", "employer", "salary",
                    "compensation", "work", "position", "job">>,
     min_matches |-> 3],
    [name |-> "Lease",
     keywords |-> <<"lease", "landlord", "tenant", "rent", "property",
                    "premises", "leaseholder">>,
     min_matches |-> 2],
    [name |-> "Service Agreement",
     keywords |-> <<"service", "services", "service provider", "contractor",
                    "engagement", "work">>,
     min_matches |-> 3],
    [name |-> "Vendor",
     keywords |-> <<"vendor", "supplier", "supply", "purchasing", "goods",
                    "material">>,
     min_matches |-> 2],
    [name |-> "Partnership",
     keywords |-> <<"partnership", "partner", "joint venture", "co-founder",
                    "equity", "profit", "loss">>,
     min_matches |-> 2],
    [name |-> "NDA",
     keywords |-> <<"non-disclosure", "nda", "confidential",
                    "confidentiality agreement", "proprietary">>,
     min_matches |-> 2],
    [name |-> "License Agreement",
     keywords |-> <<"license", "licensed", "licensor", "licensee",
                    "intellectual property", "ip">>,
     min_matches |-> 2],
    [name |-> "Loan Agreement",
     keywords |-> <<"loan", "lender", "borrower", "principal", "interest",
                    "repayment", "debt">>,
     min_matches |-> 3] >>

\* contract_classifier.py:84-98
_get_type_description(contract_type) ==
    CASE contract_type = "Employment" ->
            "Agreement between employer and employee defining terms of work"
      [] contract_type = "Lease" ->
            "Agreement for renting property or equipment"
      [] contract_type = "Service Agreement" ->
            "Contract for provision of services"
      [] contract_type = "Vendor" ->
            "Agreement for supply of goods or services from a vendor"
      [] contract_type = "Partnership" ->
            "Agreement establishing partnership between parties"
      [] contract_type = "NDA" ->
            "Non-disclosure agreement protecting confidential information"
      [] contract_type = "License Agreement" ->
            "Agreement granting rights to use intellectual property"
      [] contract_type = "Loan Agreement" ->
            "Agreement for borrowing and repayment of funds"
      [] contract_type = "General Contract" -> "Contract of unknown type"
      [] OTHER -> "Contract of unknown type"

\* contract_classifier.py:61-64: the inner loop over one bucket's keywords
keyword_matches(text_lower, keywords) ==
    LET RECURSIVE Scan(_)
        Scan(k) ==
            IF k = 0 THEN 0
            ELSE Scan(k - 1) +
                 (IF Contains(text_lower, keywords[k]) THEN 1 ELSE 0)
    IN  Scan(Len(keywords))

\* contract_classifier.py:66 with a strict comparison
bucket_qualifies_strict(matches, min_matches) == matches > min_matches

\* contract_classifier.py:66
bucket_qualifies(matches, min_matches) == matches >= min_matches

\* contract_classifier.py:59-67: the scores dict as the list of its
\* (key, value) items in insertion order
classifier_scores(text_lower) ==
    LET RECURSIVE Build(_)
        Build(b) ==
            IF b = 0 THEN <<>>
            ELSE LET pattern_info == CLASSIFICATION_PATTERNS[b]
                     matches == keyword_matches(text_lower, pattern_info.keywords)
                 IN  IF bucket_qualifies(matches, pattern_info.min_matches)
                     THEN Append(Build(b - 1),
                                 [key |-> pattern_info.name, value |-> matches])
                     ELSE Build(b - 1)
    IN  Build(Len(CLASSIFICATION_PATTERNS))

\* contract_classifier.py:71 keeping the last of the maximal items
max_by_value_last(scores) ==
    scores[CHOOSE i \in 1..Len(scores) :
              /\ \A j \in 1..Len(scores) : scores[j].value <= scores[i].value
              /\ \A j \in (i + 1)..Len(scores) : scores[j].value < scores[i].value].key

\* contract_classifier.py:71: max(scores, key=scores.get) returns the first
\* key, in iteration order, whose value is maximal
max_by_value(scores) ==
    scores[CHOOSE i \in 1..Len(scores) :
              /\ \A j \in 1..Len(scores) : scores[j].value <= scores[i].value
              /\ \A j \in 1..(i - 1) : scores[j].value < scores[i].value].key

\* contract_classifier.py:72 dividing by the largest bucket size
classifier_confidence_by_eight(matches) == Min(100, (matches * 100) \div 8)

\* contract_classifier.py:72: min(100, (matches / 10) * 100); the quotient
\* and the product are exact for every count a bucket can reach
classifier_confidence(matches) == Min(100, (matches * 100) \div 10)

\* the value stored under key in the items list d
DictGet(d, key) == d[CHOOSE i \in 1..Len(d) : d[i].key = key].value

DictKeys(d) == {d[i].key : i \in 1..Len(d)}

\* contract_classifier.py:46-82
classify_contract(t) ==
    LET text_lower == Lower(t)
        scores == classifier_scores(text_lower)
        primary_type == IF Len(scores) > 0 THEN max_by_value(scores)
                        ELSE "General Contract"
        confidence == IF Len(scores) > 0
                      THEN classifier_confidence(DictGet(scores, primary_type))
                      ELSE 0
    IN  [primary_type |-> primary_type,
         confidence |-> confidence,
         all_matches |-> scores,
         description |-> _get_type_description(primary_type)]

----------------------------------------------------------------------------
(* Specification of classify_contract over bounded texts *)

MaxWords == 3

\* every keyword of the largest bucket, Employment, in one phrase
FullBucket == "employment employee employer salary compensation work position job"

ClassifyWords ==
    {"employment", "Employee", "employer", "work", "services", "leaseholder",
     "vendor", "supply", "partnership", FullBucket}

\* the words of ws joined by single spaces
RECURSIVE JoinWords(_)
JoinWords(ws) ==
    IF Len(ws) = 0 THEN ""
    ELSE IF Len(ws) = 1 THEN ws[1]
    ELSE ws[1] \o " " \o JoinWords(Tail(ws))

ClassifyTexts ==
    {JoinWords(ws) : ws \in UNION {[1..n -> ClassifyWords] : n \in 0..MaxWords}}

InitClassify ==
    /\ text \in ClassifyTexts
    /\ classification = None
    /\ risks_arg = <<>>
    /\ risk_result = None
    /\ detected_risks = <<>>
    /\ called = FALSE
    /\ clauses = None
    /\ spans = <<>>
    /\ ExtIdle

ClassifyContract ==
    /\ classification = None
    /\ classification' = Some(classify_contract(text))
    /\ UNCHANGED <<text, risks_arg, risk_result, detected_risks, clauses, called,
                   spans>>
    /\ UNCHANGED ext_vars

NextClassify == ClassifyContract

SpecClassify == InitClassify /\ [][NextClassify]_vars

----------------------------------------------------------------------------
(* Claims about classify_contract *)

\* the declaration order stated for tie-breaking
BucketOrder ==
    <<"Employment", "Lease", "Service Agreement", "Vendor", "Partnership",
      "NDA", "License Agreement", "Loan Agreement">>

BucketRank(name) == CHOOSE i \in 1..Len(BucketOrder) : BucketOrder[i] = name

Bucket(name) ==
    CLASSIFICATION_PATTERNS[CHOOSE b \in 1..Len(CLASSIFICATION_PATTERNS) :
                                CLASSIFICATION_PATTERNS[b].name = name]

\* how many distinct keywords of the bucket are present in the lower-cased
\* text tl
PresentCount(name, tl) ==
    LET kws == Bucket(name).keywords
    IN  Cardinality({kws[k] : k \in {k \in 1..Len(kws) : Contains(tl, kws[k])}})

\* the present-keyword counts of the buckets, in BucketOrder
PresentCounts(t) ==
    LET tl == Lower(t)
        RECURSIVE Build(_)
        Build(i) == IF i = 0 THEN <<>>
                    ELSE Append(Build(i - 1), PresentCount(BucketOrder[i], tl))
    IN  Build(Len(BucketOrder))

\* the ranks of the buckets whose count reaches their threshold
QualifyingRanks(counts) ==
    {i \in 1..Len(BucketOrder) : counts[i] >= Bucket(BucketOrder[i]).min_matches}

\* C3: primary_type is the qualifying bucket with the largest count of
\* distinct present keywords; among buckets sharing the largest count the one
\* declared first wins.
C3_PrimaryTypeIsFirstMax ==
    classification # None =>
        LET counts == PresentCounts(text)
            q == QualifyingRanks(counts)
        IN  q # {} =>
                /\ classification[1].primary_type \in {BucketOrder[i] : i \in q}
                /\ LET w == BucketRank(classification[1].primary_type)
                   IN  \A b \in q :
                          \/ counts[b] < counts[w]
                          \/ counts[b] = counts[w] /\ w <= b

\* two buckets tie on the largest count and the earlier-declared one is
\* returned
C3_Witness ==
    /\ classification # None
    /\ text = "vendor supply partnership"
    /\ classification[1].primary_type = "Vendor"
    /\ PresentCounts(text)[BucketRank("Vendor")] = 2
    /\ PresentCounts(text)[BucketRank("Partnership")] = 2

\* C4: a bucket is a key of all_matches, mapped to its present-keyword count,
\* exactly when the count reaches min_matches; with no qualifying bucket the
\* result is General Contract, confidence 0, no matches, and the
\* General Contract description.
C4_AllMatchesAndDefault ==
    classification # None =>
        LET counts == PresentCounts(text)
            q == QualifyingRanks(counts)
            all_matches == classification[1].all_matches
        IN  /\ DictKeys(all_matches) = {BucketOrder[i] : i \in q}
            /\ \A i \in 1..Len(all_matches) :
                  /\ all_matches[i].value = counts[BucketRank(all_matches[i].key)]
                  /\ \A j \in 1..Len(all_matches) :
                        all_matches[j].key = all_matches[i].key => i = j
            /\ q = {} =>
                  classification[1] = [primary_type |-> "General Contract",
                                       confidence |-> 0,
                                       all_matches |-> <<>>,
                                       description |-> "Contract of unknown type"]

\* one bucket sits exactly at its threshold and is listed, another is one
\* keyword short of its threshold and is not
C4_Witness ==
    /\ classification # None
    /\ text = "leaseholder work Employee"
    /\ classification[1].all_matches = <<[key |-> "Lease", value |-> 2]>>
    /\ PresentCounts(text)[BucketRank("Employment")] = 2

\* C5: confidence is min(100, matchCount/10*100) for the winning bucket's
\* count, is non-decreasing in that count, never above 100, and is 0 exactly
\* when no bucket meets its threshold.
C5_Confidence ==
    classification # None =>
        LET counts == PresentCounts(text)
            q == QualifyingRanks(counts)
            confidence == classification[1].confidence
            n == IF q = {} THEN 0
                 ELSE counts[BucketRank(classification[1].primary_type)]
        IN  /\ q # {} => confidence * 10 = Min(100 * 10, n * 100)
            /\ confidence <= 100
            /\ (confidence = 0) <=> (q = {})
            /\ \A c \in 0..Len(Bucket("Employment").keywords) :
                  /\ c <= n => classifier_confidence(c) <= confidence
                  /\ c >= n => classifier_confidence(c) >= confidence

\* the scenario: three Employment keywords, no other bucket at its threshold
C5_Witness ==
    /\ classification # None
    /\ text = "employment Employee employer"
    /\ classification[1].primary_type = "Employment"
    /\ classification[1].confidence = 30
    /\ DictKeys(classification[1].all_matches) = {"Employment"}

\* C25: for every text the confidence is 0 or ten times a match count
\* between 2 and 8; it is ten times the winning bucket's count, hence at
\* least 20, whenever a bucket qualifies, and it never exceeds 80, so the
\* cap at 100 is never reached.
C25_ConfidenceRange ==
    classification # None =>
        LET counts == PresentCounts(text)
            q == QualifyingRanks(counts)
            confidence == classification[1].confidence
        IN  /\ confidence \in {0} \cup {10 * n : n \in 2..8}
            /\ q # {} =>
                  /\ confidence >= 20
                  /\ confidence
                        = 10 * counts[BucketRank(classification[1].primary_type)]
            /\ confidence <= 80
            /\ confidence < 100

\* all eight Employment keywords are present: the largest count any bucket
\* can reach gives confidence 80
C25_Witness ==
    /\ classification # None
    /\ text = FullBucket
    /\ PresentCounts(text)[BucketRank("Employment")]
          = Len(Bucket("Employment").keywords)
    /\ classification[1].primary_type = "Employment"
    /\ classification[1].confidence = 80

----------------------------------------------------------------------------
(* RiskDetectionEngine.detect_risks *)

\* risk_detection.py:12-63, in declaration order
RISK_PATTERNS == <<
    [type |-> "Penalty Clauses",
     keywords |-> <<"penalty", "fine", "damages", "liquidated", "breach",
                    "indemnify">>,
     risk_level |-> "high",
     description |-> "Clauses imposing penalties for breach"],
    [type |-> "Indemnity Clauses",
     keywords |-> <<"indemnify", "indemnification", "hold harmless",
                    "defending", "liability">>,
     risk_level |-> "high",
     description |-> "Clauses requiring indemnification"],
    [type |-> "Termination Clauses",
     keywords |-> <<"termination", "terminate", "terminate for cause",
                    "terminate without cause">>,
     risk_level |-> "medium",
     description |-> "Clauses specifying termination rights"],
    [type |-> "Lock-in Period",
     keywords |-> <<"lock", "lock-in", "locked in", "exclusive", "no exit",
                    "cannot terminate">>,
     risk_level |-> "high",
     description |-> "Clauses restricting early termination"],
    [type |-> "Auto-Renewal",
     keywords |-> <<"auto-renewal", "automatic renewal", "renew",
                    "unless notice", "renewal">>,
     risk_level |-> "medium",
     description |-> "Clauses with automatic renewal"],
    [type |-> "Arbitration",
     keywords |-> <<"arbitration", "arbitrator", "binding arbitration",
                    "arbitrate">>,
     risk_level |-> "medium",
     description |-> "Arbitration dispute resolution clauses"],
    [type |-> "Intellectual Property",
     keywords |-> <<"intellectual property", "patent", "copyright",
                    "trademark", "ip", "proprietary", "work made for hire">>,
     risk_level |-> "high",
     description |-> "IP assignment and ownership clauses"],
    [type |-> "Confidentiality",
     keywords |-> <<"confidential", "confidentiality", "nda",
                    "non-disclosure", "proprietary">>,
     risk_level |-> "medium",
     description |-> "Confidentiality and NDA clauses"],
    [type |-> "Limitation of Liability",
     keywords |-> <<"limitation of liability", "limit of liability", "liable",
                    "not liable", "exclude">>,
     risk_level |-> "medium",
     description |-> "Clauses limiting liability"],
    [type |-> "Non-Competition",
     keywords |-> <<"non-compete", "non-competition", "compete", "competitor",
                    "restrictive covenant">>,
     risk_level |-> "high",
     description |-> "Non-compete and restrictive covenant clauses"] >>

\* risk_detection.py:117-125
_assign_severity_score(risk_level) ==
    CASE risk_level = "low" -> 25
      [] risk_level = "medium" -> 55
      [] risk_level = "high" -> 85
      [] OTHER -> 50

\* risk_detection.py:104: the default of the context_window parameter
context_window == 150

\* the class [.!?] of the sentence pattern
Terminators == {".", "!", "?"}

\* the characters str.strip() removes
Whitespace == {" ", "\n", "\t", "\r", "\f"}

\* the least and the greatest element of a non-empty set of integers
MinOf(S) == CHOOSE x \in S : \A y \in S : x <= y
MaxOf(S) == CHOOSE x \in S : \A y \in S : x >= y

\* Python's str.strip()
Strip(s) ==
    IF \A i \in 1..Len(s) : Char(s, i) \in Whitespace THEN ""
    ELSE LET a == CHOOSE i \in 1..Len(s) :
                     /\ Char(s, i) \notin Whitespace
                     /\ \A j \in 1..(i - 1) : Char(s, j) \in Whitespace
             b == CHOOSE i \in 1..Len(s) :
                     /\ Char(s, i) \notin Whitespace
                     /\ \A j \in (i + 1)..Len(s) : Char(s, j) \in Whitespace
         IN  SubSeq(s, a, b)

\* The matches re.finditer finds for the pattern
\*     .{0,W}[^.!?]*?KEYWORD[^.!?]*?[.!?]      (IGNORECASE | DOTALL)
\* as [start, end) offsets, 0-based as in Python.
\*   occs     offsets at which the keyword occurs, ignoring case
\*   valid    occurrences followed by a terminator: the tail [^.!?]*?[.!?]
\*            stops at the first terminator at or after the keyword's end
\*   RunStart the least offset q from which the lazy [^.!?]*? reaches the
\*            occurrence p without crossing a terminator
\* From a cursor q the lazy run takes the first occurrence at or after q, so
\* the body after .{0,W} succeeds at q iff RunStart(p) <= q <= p for some
\* valid p.  A match starts at the least s >= pos from which some such q lies
\* within W characters; the greedy .{0,W} then picks the greatest such q.
sentence_matches(t, keyword) ==
    LET tl == Lower(t)
        kw == Lower(keyword)
        terms == {e \in 0..(Len(t) - 1) : Char(t, e + 1) \in Terminators}
        occs == {p \in 0..(Len(t) - Len(kw)) : OccursAt(tl, kw, p + 1)}
        valid == {p \in occs : \E e \in terms : e >= p + Len(kw)}
        SentenceEnd(p) == MinOf({e \in terms : e >= p + Len(kw)}) + 1
        RunStart(p) ==
            IF \E e \in terms : e < p
            THEN MaxOf({e \in terms : e < p}) + 1
            ELSE 0
        RECURSIVE Scan(_)
        Scan(pos) ==
            IF \A p \in valid : p < pos THEN <<>>
            ELSE LET g == MinOf({Max(RunStart(p), pos) :
                                    p \in {p \in valid : p >= pos}})
                     s == Max(pos, g - context_window)
                     q == MaxOf({Min(p, s + context_window) :
                                    p \in {p \in valid :
                                              /\ p >= s
                                              /\ RunStart(p) <= s + context_window}})
                     p == MinOf({p \in valid : p >= q})
                 IN  <<[start |-> s, end |-> SentenceEnd(p)]>>
                         \o Scan(SentenceEnd(p))
    IN  Scan(0)

\* risk_detection.py:110-113: the stripped, non-empty matches cut to 300
\* characters
RECURSIVE match_sentences(_, _)
match_sentences(t, matches) ==
    IF Len(matches) = 0 THEN <<>>
    ELSE LET sentence == Strip(SubSeq(t, matches[1].start + 1, matches[1].end))
         IN  (IF sentence # "" THEN <<Take(sentence, 300)>> ELSE <<>>)
                 \o match_sentences(t, Tail(matches))

\* risk_detection.py:103-115
_find_sentence_with_keyword(t, keyword) ==
    Take(match_sentences(t, sentence_matches(t, keyword)), 3)

\* risk_detection.py:85-88 without the break at line 99: the sentences of
\* every keyword that occurs
category_sentences_all_keywords(t, text_lower, keywords) ==
    LET RECURSIVE Scan(_)
        Scan(k) ==
            IF k > Len(keywords) THEN <<>>
            ELSE (IF Contains(text_lower, keywords[k])
                  THEN _find_sentence_with_keyword(t, keywords[k])
                  ELSE <<>>) \o Scan(k + 1)
    IN  Scan(1)

\* risk_detection.py:85-88, 99: the sentences found for the first keyword of
\* the list that occurs in text_lower; the break ends the keyword loop there
category_sentences(t, text_lower, keywords) ==
    LET RECURSIVE Scan(_)
        Scan(k) ==
            IF k > Len(keywords) THEN <<>>
            ELSE IF Contains(text_lower, keywords[k])
                 THEN _find_sentence_with_keyword(t, keywords[k])
                 ELSE Scan(k + 1)
    IN  Scan(1)

\* risk_detection.py:90-96
make_risk(risk_info, sentence) ==
    [type |-> risk_info.type,
     risk_level |-> risk_info.risk_level,
     description |-> risk_info.description,
     evidence |-> Take(sentence, 200),
     severity_score |-> _assign_severity_score(risk_info.risk_level)]

\* risk_detection.py:97-98 without the membership test
append_risk_unconditionally(risks, risk) == Append(risks, risk)

\* risk_detection.py:97-98
append_risk(risks, risk) ==
    IF \E i \in 1..Len(risks) : risks[i] = risk THEN risks
    ELSE Append(risks, risk)

\* risk_detection.py:89-98: the loop over the sentences of one category
RECURSIVE add_risks(_, _, _)
add_risks(risks, risk_info, sentences) ==
    IF Len(sentences) = 0 THEN risks
    ELSE add_risks(append_risk(risks, make_risk(risk_info, Head(sentences))),
                   risk_info, Tail(sentences))

\* risk_detection.py:80 keeping the findings of the engine's earlier call
detected_risks_kept(self_detected_risks) == self_detected_risks

\* risk_detection.py:80: self.detected_risks = []
detected_risks_reset(self_detected_risks) == <<>>

\* risk_detection.py:84-87: the sentences found for each category of
\* RISK_PATTERNS, in the order of the categories
RECURSIVE category_sentences_upto(_, _, _)
category_sentences_upto(t, text_lower, b) ==
    IF b = 0 THEN <<>>
    ELSE Append(category_sentences_upto(t, text_lower, b - 1),
                category_sentences(t, text_lower, RISK_PATTERNS[b].keywords))

\* risk_detection.py:82-87
risk_sentences(t) == category_sentences_upto(t, Lower(t), Len(RISK_PATTERNS))

\* risk_detection.py:80-101 on an engine whose detected_risks was
\* self_detected_risks, given the sentences found for each category
detect_risks_from(self_detected_risks, sentences) ==
    LET RECURSIVE Scan(_)
        Scan(b) ==
            IF b = 0 THEN detected_risks_reset(self_detected_risks)
            ELSE add_risks(Scan(b - 1), RISK_PATTERNS[b], sentences[b])
    IN  Scan(Len(RISK_PATTERNS))

\* risk_detection.py:69-101 on an engine whose detected_risks was
\* self_detected_risks
detect_risks_on(self_detected_risks, t) ==
    detect_risks_from(self_detected_risks, risk_sentences(t))

\* risk_detection.py:65-101: detect_risks on a new engine
detect_risks(t) == detect_risks_on(<<>>, t)

----------------------------------------------------------------------------
(* Specification of detect_risks over bounded texts *)

MaxSegments == 2

RECURSIVE Repeat(_, _)
Repeat(s, n) ==
    IF n = 0 THEN ""
    ELSE IF n % 2 = 1 THEN s \o Repeat(s, n - 1)
    ELSE LET h == Repeat(s, n \div 2) IN h \o h

\* blank space wider than the context window
Blank == Repeat(" ", context_window + 1)

\* a run of more than 200 characters without a terminator
LongRun == Repeat("very ", 42)

RiskSegments ==
    {"fine.",
     "Penalty due!",
     "no penalty",
     "We may terminate?",
     "Indemnify us.",
     Blank \o "fine.",
     Blank \o "Fine!" \o Blank \o "a fine?",
     LongRun \o "fine."}

RiskTexts ==
    {JoinWords(ws) : ws \in UNION {[1..n -> RiskSegments] : n \in 0..MaxSegments}}

\* detected_risks is [] after __init__ (risk_detection.py:65-67); called
\* tells whether detect_risks has returned
InitRisk ==
    /\ text \in RiskTexts
    /\ detected_risks = <<>>
    /\ called = FALSE
    /\ risks_arg = <<>>
    /\ risk_result = None
    /\ classification = None
    /\ clauses = None
    /\ spans = <<>>
    /\ ExtIdle

DetectRisks ==
    /\ ~called
    /\ detected_risks' = detect_risks_on(detected_risks, text)
    /\ called' = TRUE
    /\ UNCHANGED <<text, risks_arg, risk_result, classification, clauses, spans>>
    /\ UNCHANGED ext_vars

NextRisk == DetectRisks

SpecRisk == InitRisk /\ [][NextRisk]_vars

----------------------------------------------------------------------------
(* Claims about detect_risks *)

\* the findings of the list that carry the type
RECURSIVE FindingsOfType(_, _)
FindingsOfType(risks, type) ==
    IF Len(risks) = 0 THEN <<>>
    ELSE (IF Head(risks).type = type THEN <<Head(risks)>> ELSE <<>>)
         \o FindingsOfType(Tail(risks), type)

\* the indices of the keywords of the list that occur in the lower-cased text
PresentKeywords(tl, keywords) ==
    {k \in 1..Len(keywords) : Contains(tl, keywords[k])}

\* C6: per category, findings come only from the first keyword of the
\* category's list that occurs in the text (case-insensitively); later
\* keywords contribute nothing; a category yields at most 3 findings and
\* every evidence has at most 200 characters.
C6_FirstHitWins ==
    called =>
        LET tl == Lower(text)
        IN  \A b \in 1..Len(RISK_PATTERNS) :
                LET found == FindingsOfType(detected_risks, RISK_PATTERNS[b].type)
                    present == PresentKeywords(tl, RISK_PATTERNS[b].keywords)
                IN  /\ Len(found) <= 3
                    /\ \A i \in 1..Len(found) : Len(found[i].evidence) <= 200
                    /\ present = {} => Len(found) = 0
                    /\ present # {} =>
                          LET first == RISK_PATTERNS[b].keywords[MinOf(present)]
                              sentences == _find_sentence_with_keyword(text, first)
                          IN  \A i \in 1..Len(found) :
                                 \E j \in 1..Len(sentences) :
                                    found[i].evidence = Take(sentences[j], 200)

\* "fine" stands in a sentence of its own ahead of "penalty": the only
\* Penalty finding is the sentence matched for "penalty", the first keyword
C6_Witness ==
    /\ called
    /\ text = "fine. Penalty due!"
    /\ PresentKeywords(Lower(text), RISK_PATTERNS[1].keywords) = {1, 2}
    /\ _find_sentence_with_keyword(text, "fine") = <<"fine.">>
    /\ Len(detected_risks) = 1
    /\ detected_risks[1].type = "Penalty Clauses"
    /\ detected_risks[1].evidence = "fine. Penalty due!"

\* C7: the returned list holds no two findings equal in every field, and
\* every finding built from a matched sentence is in the list, so findings
\* differing in any field are both kept.
C7_DedupByFullEquality ==
    called =>
        /\ \A i, j \in 1..Len(detected_risks) :
              detected_risks[i] = detected_risks[j] => i = j
        /\ LET tl == Lower(text)
           IN  \A b \in 1..Len(RISK_PATTERNS) :
                  LET sentences ==
                          category_sentences(text, tl, RISK_PATTERNS[b].keywords)
                  IN  \A k \in 1..Len(sentences) :
                         \E i \in 1..Len(detected_risks) :
                            /\ detected_risks[i].type = RISK_PATTERNS[b].type
                            /\ detected_risks[i].risk_level = RISK_PATTERNS[b].risk_level
                            /\ detected_risks[i].description = RISK_PATTERNS[b].description
                            /\ detected_risks[i].evidence = Take(sentences[k], 200)
                            /\ detected_risks[i].severity_score
                                  = _assign_severity_score(RISK_PATTERNS[b].risk_level)

\* three sentences are matched for "fine", the first and the third with the
\* same text: the repeat is collapsed and the two findings that differ only
\* in their evidence are both kept
C7_Witness ==
    /\ called
    /\ category_sentences(text, Lower(text), RISK_PATTERNS[1].keywords)
          = <<"Fine!", "a fine?", "Fine!">>
    /\ Len(detected_risks) = 2
    /\ detected_risks[1].evidence = "Fine!"
    /\ detected_risks[2].evidence = "a fine?"
    /\ detected_risks[1].type = detected_risks[2].type

\* some occurrence of the keyword in the text, ignoring case, has a sentence
\* terminator at or after its end
FollowedByTerminator(t, keyword) ==
    \E p \in 1..(Len(t) - Len(keyword) + 1) :
        /\ OccursAt(Lower(t), Lower(keyword), p)
        /\ \E e \in (p + Len(keyword))..Len(t) : Char(t, e) \in Terminators

\* C24: when the first keyword of a category's list that occurs in the text
\* is never followed by a sentence terminator, the category has no finding
\* in the result, also when a later keyword of the category stands in a
\* terminated sentence.
C24_UnterminatedFirstKeywordSilencesCategory ==
    called =>
        \A b \in 1..Len(RISK_PATTERNS) :
            LET present == PresentKeywords(Lower(text), RISK_PATTERNS[b].keywords)
            IN  (/\ present # {}
                 /\ ~FollowedByTerminator(text,
                        RISK_PATTERNS[b].keywords[MinOf(present)]))
                => Len(FindingsOfType(detected_risks, RISK_PATTERNS[b].type)) = 0

\* "penalty" ends the text without a terminator while "fine", a later
\* keyword of the same category, stands in a sentence of its own: the result
\* has no Penalty finding
C24_Witness ==
    /\ called
    /\ text = "fine. no penalty"
    /\ PresentKeywords(Lower(text), RISK_PATTERNS[1].keywords) = {1, 2}
    /\ ~FollowedByTerminator(text, RISK_PATTERNS[1].keywords[1])
    /\ FollowedByTerminator(text, RISK_PATTERNS[1].keywords[2])
    /\ _find_sentence_with_keyword(text, RISK_PATTERNS[1].keywords[2]) = <<"fine.">>
    /\ detected_risks = <<>>

----------------------------------------------------------------------------
(* extract_clauses and _extract_subclauses *)

\* \d and [A-Z] on ASCII text
Digits == {"0", "1", "2", "3", "4", "5", "6", "7", "8", "9"}
UpperSet == {Char(UpperLetters, i) : i \in 1..26}
LowerSet == {Char(LowerLetters, i) : i \in 1..26}

\* the character of t at the 0-based offset o
At(t, o) == Char(t, o + 1)

\* how many consecutive characters of the class stand at offset o: what a
\* greedy class+ or class* consumes there
RunLen(t, o, class) ==
    CHOOSE n \in 0..Max(0, Len(t) - o) :
        /\ \A i \in o..(o + n - 1) : At(t, i) \in class
        /\ o + n >= Len(t) \/ At(t, o + n) \notin class

\* ^ and $ under re.MULTILINE
line_start(t, o) == o = 0 \/ At(t, o - 1) = "\n"
line_end(t, o) == o = Len(t) \/ At(t, o) = "\n"

\* the lookahead alternative ^\d+\. at offset o
numbered_at(t, o) ==
    /\ line_start(t, o)
    /\ LET d == RunLen(t, o, Digits)
       IN  d >= 1 /\ o + d < Len(t) /\ At(t, o + d) = "."

\* clause_extraction.py:20 under re.IGNORECASE: letters of either case
upper_class_ignorecase == UpperSet \cup LowerSet

\* clause_extraction.py:20: the class [A-Z], as the heading's first
\* character and inside [A-Z\s]
upper_class == UpperSet

\* clause_extraction.py:20: the class [A-Z\s] of the heading
heading_chars == upper_class \cup Whitespace

\* clause_extraction.py:20: the match of
\*     ^(\d+)\.\s+([A-Z][A-Z\s]*?)(?=^\d+\.|$)        (MULTILINE)
\* attempted at offset s.  \d+ and \s+ take their whole runs (a shorter run
\* would leave a digit before \. or a blank before [A-Z]); the lazy
\* [A-Z\s]*? stops at the first offset where the lookahead holds.
clause_match_at(t, s) ==
    LET d == RunLen(t, s, Digits)
        dot == s + d
        w == RunLen(t, dot + 1, Whitespace)
        a == dot + 1 + w
        stops == {e \in (a + 1)..Len(t) :
                     /\ numbered_at(t, e) \/ line_end(t, e)
                     /\ \A i \in (a + 1)..(e - 1) : At(t, i) \in heading_chars}
    IN  IF /\ line_start(t, s)
           /\ d >= 1 /\ dot < Len(t) /\ At(t, dot) = "."
           /\ w >= 1 /\ a < Len(t) /\ At(t, a) \in upper_class
           /\ stops # {}
        THEN [ok |-> TRUE, start |-> s, end |-> MinOf(stops),
              number |-> SubSeq(t, s + 1, dot),
              title |-> SubSeq(t, a + 1, MinOf(stops))]
        ELSE [ok |-> FALSE, start |-> s, end |-> s, number |-> "", title |-> ""]

\* clause_extraction.py:22: list(re.finditer(...)): the leftmost match from
\* the cursor, then on from its end
clause_matches(t) ==
    LET starts == {s \in 0..(Len(t) - 1) : clause_match_at(t, s).ok}
        RECURSIVE Scan(_)
        Scan(pos) ==
            IF \A s \in starts : s < pos THEN <<>>
            ELSE LET m == clause_match_at(t, MinOf({s \in starts : s >= pos}))
                 IN  <<m>> \o Scan(m.end)
    IN  Scan(0)

\* clause_extraction.py:56: the match of
\*     ^(\d+\.\d+)\s+(.+?)(?=^\d+\.\d+|$)             (MULTILINE)
\* attempted at offset s.  \s+ gives back blanks until a character other
\* than a newline follows it; the lazy .+? never crosses a newline and stops
\* at the first offset where the lookahead holds.
subclause_match_at(t, s) ==
    LET d1 == RunLen(t, s, Digits)
        dot == s + d1
        d2 == RunLen(t, dot + 1, Digits)
        ws == dot + 1 + d2
        run == RunLen(t, ws, Whitespace)
        widths == {w \in 1..run : ws + w < Len(t) /\ At(t, ws + w) # "\n"}
        a == ws + MaxOf(widths)
        decimal_at(e) ==
            /\ line_start(t, e)
            /\ LET e1 == RunLen(t, e, Digits)
                   e2 == RunLen(t, e + e1 + 1, Digits)
               IN  /\ e1 >= 1 /\ e + e1 < Len(t) /\ At(t, e + e1) = "."
                   /\ e2 >= 1
        stops == {e \in (a + 1)..Len(t) :
                     /\ decimal_at(e) \/ line_end(t, e)
                     /\ \A i \in (a + 1)..(e - 1) : At(t, i) # "\n"}
    IN  IF /\ line_start(t, s)
           /\ d1 >= 1 /\ dot < Len(t) /\ At(t, dot) = "."
           /\ d2 >= 1
           /\ widths # {}
        THEN [ok |-> TRUE, start |-> s, end |-> MinOf(stops),
              number |-> SubSeq(t, s + 1, ws),
              body |-> SubSeq(t, a + 1, MinOf(stops))]
        ELSE [ok |-> FALSE, start |-> s, end |-> s, number |-> "", body |-> ""]

\* clause_extraction.py:58
subclause_matches(t) ==
    LET starts == {s \in 0..(Len(t) - 1) : subclause_match_at(t, s).ok}
        RECURSIVE Scan(_)
        Scan(pos) ==
            IF \A s \in starts : s < pos THEN <<>>
            ELSE LET m == subclause_match_at(t, MinOf({s \in starts : s >= pos}))
                 IN  <<m>> \o Scan(m.end)
    IN  Scan(0)

\* clause_extraction.py:52-70
_extract_subclauses(t) ==
    LET matches == subclause_matches(t)
    IN  [i \in 1..Len(matches) |->
            [number |-> matches[i].number,
             content |-> Take(Strip(matches[i].body), 200)]]

\* clause_extraction.py:31-33 taking the end of the next match
clause_content_end_after_next_header(t, matches, i) ==
    IF i + 1 <= Len(matches) THEN matches[i + 1].end ELSE Len(t)

\* clause_extraction.py:31-33: where the content of the i-th clause ends
clause_content_end(t, matches, i) ==
    IF i + 1 <= Len(matches) THEN matches[i + 1].start ELSE Len(t)

\* clause_extraction.py:29-33: the locals start and end of each iteration,
\* with the offset at which the clause's header match begins
clause_spans_of(t, matches) ==
    [i \in 1..Len(matches) |->
        [header |-> matches[i].start,
         start |-> matches[i].end,
         end |-> clause_content_end(t, matches, i)]]

\* clause_extraction.py:22-33: the spans of the matches of the text
clause_spans(t) == clause_spans_of(t, clause_matches(t))

\* clause_extraction.py:8-49.  matches and content are locals of the
\* function: each is bound to its value once and then used
extract_clauses(t) ==
    CHOOSE result \in
        {[i \in 1..Len(matches) |->
             CHOOSE clause \in
                 {[number |-> matches[i].number,
                   heading |-> Strip(matches[i].title),
                   content |-> Take(content, 500),
                   full_content |-> content,
                   subclauses |-> _extract_subclauses(content)] :
                  content \in {Strip(SubSeq(t,
                      clause_spans_of(t, matches)[i].start + 1,
                      clause_spans_of(t, matches)[i].end))}} : TRUE] :
         matches \in {clause_matches(t)}} : TRUE

----------------------------------------------------------------------------
(* Specification of extract_clauses over bounded texts *)

MaxLines == 3

ClauseLines ==
    {"1. TERMINATION", "2. GENERAL TERMS", "3. Payment", "1.1 First part",
     "second line", "1.2 Next", "4.", "NOTICES"}

\* the lines of ls joined by newlines
RECURSIVE JoinLines(_)
JoinLines(ls) ==
    IF Len(ls) = 0 THEN ""
    ELSE IF Len(ls) = 1 THEN ls[1]
    ELSE ls[1] \o "\n" \o JoinLines(Tail(ls))

ClauseTexts ==
    {JoinLines(ls) : ls \in UNION {[1..n -> ClauseLines] : n \in 0..MaxLines}}

InitClauses ==
    /\ text \in ClauseTexts
    /\ clauses = None
    /\ spans = <<>>
    /\ risks_arg = <<>>
    /\ risk_result = None
    /\ detected_risks = <<>>
    /\ called = FALSE
    /\ classification = None
    /\ ExtIdle

ExtractClauses ==
    /\ clauses = None
    /\ clauses' = Some(extract_clauses(text))
    /\ spans' = clause_spans(text)
    /\ UNCHANGED <<text, risks_arg, risk_result, detected_risks, called,
                   classification>>
    /\ UNCHANGED ext_vars

NextClauses == ExtractClauses

SpecClauses == InitClauses /\ [][NextClauses]_vars

----------------------------------------------------------------------------
(* Claims about extract_clauses *)

\* C8: clauses come in ascending order of their header offset and do not
\* overlap; a clause's content span starts where its own header ends and
\* ends exactly where the next top-level header begins (at the end of the
\* text for the last clause), so headers and content spans tile the text
\* from the first header on; the stored content is that span, stripped.
C8_SpansOrderedContiguous ==
    clauses # None =>
        LET cl == clauses[1]
            n == Len(spans)
        IN  /\ Len(cl) = n
            /\ \A i \in 1..n :
                  /\ 0 <= spans[i].header
                  /\ spans[i].header < spans[i].start
                  /\ spans[i].start <= spans[i].end
                  /\ spans[i].end <= Len(text)
                  /\ clause_match_at(text, spans[i].header).ok
                  /\ clause_match_at(text, spans[i].header).end = spans[i].start
                  /\ \A o \in spans[i].start..(spans[i].end - 1) :
                        ~clause_match_at(text, o).ok
                  /\ cl[i].full_content
                        = Strip(SubSeq(text, spans[i].start + 1, spans[i].end))
            /\ \A i \in 1..(n - 1) :
                  /\ spans[i].header < spans[i + 1].header
                  /\ spans[i].end = spans[i + 1].header
            /\ n > 0 => spans[n].end = Len(text)

\* two clauses, the first with a content line between the two headers
C8_Witness ==
    /\ clauses # None
    /\ text = "1. TERMINATION\nsecond line\n2. GENERAL TERMS"
    /\ spans = <<[header |-> 0, start |-> 14, end |-> 27],
                 [header |-> 27, start |-> 43, end |-> 43]>>
    /\ clauses[1][1].full_content = "second line"
    /\ clauses[1][2].full_content = ""

\* the blanks that separate tokens within one line
InlineBlanks == {" ", "\t"}

\* the offset at which the line holding offset o ends
LineStop(t, o) ==
    CHOOSE e \in o..Len(t) :
        /\ line_end(t, e)
        /\ \A i \in o..(e - 1) : At(t, i) # "\n"

\* the offsets of p at which a line begins with <integer>.<integer>
\* followed by whitespace
SubclauseBoundaries(p) ==
    {o \in 0..(Len(p) - 1) :
        /\ line_start(p, o)
        /\ LET d1 == RunLen(p, o, Digits)
               d2 == RunLen(p, o + d1 + 1, Digits)
           IN  /\ d1 >= 1 /\ o + d1 < Len(p) /\ At(p, o + d1) = "."
               /\ d2 >= 1
               /\ o + d1 + 1 + d2 < Len(p)
               /\ At(p, o + d1 + 1 + d2) \in Whitespace}

\* the sub-clauses of the parent content p when each one runs from its
\* number to the next boundary, or to the end of p
SubclausesToNextBoundary(p) ==
    LET bs == SubclauseBoundaries(p)
        RECURSIVE Build(_)
        Build(pos) ==
            IF \A o \in bs : o < pos THEN <<>>
            ELSE LET o == MinOf({x \in bs : x >= pos})
                     d1 == RunLen(p, o, Digits)
                     d2 == RunLen(p, o + d1 + 1, Digits)
                     stop == IF \E x \in bs : x > o
                             THEN MinOf({x \in bs : x > o})
                             ELSE Len(p)
                 IN  <<[number |-> SubSeq(p, o + 1, o + d1 + 1 + d2),
                        content |-> Take(Strip(SubSeq(p, o + d1 + 1 + d2 + 1, stop)),
                                         200)]>>
                         \o Build(stop)
    IN  Build(0)

\* C9: within a clause's content every line beginning with
\* <integer>.<integer> and whitespace starts a sub-clause whose content runs
\* to the next such line or to the end of the parent content (cut to 200
\* characters), also when it spans several lines; without such a line the
\* sub-clause list is empty.
C9_SubclauseRunsToNextBoundary ==
    clauses # None =>
        \A i \in 1..Len(clauses[1]) :
            clauses[1][i].subclauses
                = SubclausesToNextBoundary(clauses[1][i].full_content)

\* the line at offset o reads <integer>. blanks HEADING, the heading
\* starting with an upper-case letter and drawn from the class
NumberedHeadingLine(t, o, class) ==
    /\ line_start(t, o)
    /\ LET d == RunLen(t, o, Digits)
           w == RunLen(t, o + d + 1, InlineBlanks)
           a == o + d + 1 + w
       IN  /\ d >= 1 /\ o + d < Len(t) /\ At(t, o + d) = "."
           /\ w >= 1
           /\ a < LineStop(t, o)
           /\ At(t, a) \in UpperSet
           /\ \A i \in a..(LineStop(t, o) - 1) : At(t, i) \in class

\* the integer and the heading text of the numbered heading line at o
LineNumber(t, o) == SubSeq(t, o + 1, o + RunLen(t, o, Digits))
LineHeading(t, o) ==
    Strip(SubSeq(t, o + RunLen(t, o, Digits) + 2, LineStop(t, o)))

\* some clause of the result was cut at the line at offset o, with the
\* line's integer as number and its heading text as heading
ClauseForLine(o) ==
    \E i \in 1..Len(spans) :
        /\ spans[i].header = o
        /\ clauses[1][i].number = LineNumber(text, o)
        /\ clauses[1][i].heading = LineHeading(text, o)

\* C10 as stated: every line <integer>. whitespace heading, the heading
\* all-caps or merely capitalized, yields a Clause with that number and
\* heading.
C10_CapitalizedHeadingRecognised ==
    clauses # None =>
        \A o \in 0..(Len(text) - 1) :
            NumberedHeadingLine(text, o, UpperSet \cup LowerSet \cup InlineBlanks)
                => ClauseForLine(o)

\* C10, amended: every line <integer>. whitespace heading whose heading
\* holds only upper-case letters and blanks yields a Clause with that number
\* and heading; a line whose heading starts with a capital and holds a
\* lower-case letter is not a clause boundary.
C10_AllCapsHeadingRecognised ==
    clauses # None =>
        \A o \in 0..(Len(text) - 1) :
            /\ NumberedHeadingLine(text, o, UpperSet \cup InlineBlanks)
                  => ClauseForLine(o)
            /\ ( /\ NumberedHeadingLine(text, o,
                                        UpperSet \cup LowerSet \cup InlineBlanks)
                 /\ ~NumberedHeadingLine(text, o, UpperSet \cup InlineBlanks) )
                  => \A i \in 1..Len(spans) : spans[i].header # o

\* an all-caps heading line is cut into a clause and the capitalized heading
\* line after it is left inside that clause's content
C10_Witness ==
    /\ clauses # None
    /\ text = "2. GENERAL TERMS\n3. Payment"
    /\ Len(clauses[1]) = 1
    /\ clauses[1][1].number = "2"
    /\ clauses[1][1].heading = "GENERAL TERMS"
    /\ clauses[1][1].full_content = "3. Payment"

----------------------------------------------------------------------------
(* extract_definitions (utils/clause_extraction.py) *)

\* clause_extraction.py:85: the alternatives of the trigger group
definition_triggers == <<"means", "is", "shall", "refers to">>

\* clause_extraction.py:85: the match of
\*     "([^"]+)"\s*(?:means|is|shall|refers to)\s*([^.]+\.)    (IGNORECASE)
\* attempted at offset s.  [^"]+ runs to the next quote and the first \s*
\* takes its whole run (no trigger starts with a blank); no trigger is a
\* prefix of another, so at most one alternative matches.  [^.]+ needs one
\* character before the first period: the second \s* takes its whole run
\* unless that run reaches the period, and then gives one blank back.
definition_match_at(t, s) ==
    LET n == Len(t)
        quotes == {q \in (s + 1)..(n - 1) : At(t, q) = "\""}
        q == IF quotes = {} THEN n ELSE MinOf(quotes)
        p == q + 1 + RunLen(t, q + 1, Whitespace)
        hits == {k \in 1..Len(definition_triggers) :
                    /\ p + Len(definition_triggers[k]) <= n
                    /\ Lower(SubSeq(t, p + 1, p + Len(definition_triggers[k])))
                         = definition_triggers[k]}
        e == IF hits = {} THEN n
             ELSE p + Len(definition_triggers[CHOOSE k \in hits : TRUE])
        periods == {d \in e..(n - 1) : At(t, d) = "."}
        d == IF periods = {} THEN n ELSE MinOf(periods)
        w == RunLen(t, e, Whitespace)
        g == IF e + w < d THEN e + w ELSE d - 1
    IN  IF /\ s < n /\ At(t, s) = "\""
           /\ q < n /\ q > s + 1
           /\ hits # {}
           /\ d < n /\ d > e
        THEN [ok |-> TRUE, start |-> s, end |-> d + 1,
              group1 |-> SubSeq(t, s + 2, q),
              trigger_end |-> e,
              group2 |-> SubSeq(t, g + 1, d + 1)]
        ELSE [ok |-> FALSE, start |-> s, end |-> s, group1 |-> "",
              trigger_end |-> s, group2 |-> ""]

\* clause_extraction.py:87: re.finditer: the leftmost match from the cursor,
\* then on from its end
definition_matches(t) ==
    LET starts == {s \in 0..(Len(t) - 1) : definition_match_at(t, s).ok}
        RECURSIVE Scan(_)
        Scan(pos) ==
            IF \A s \in starts : s < pos THEN <<>>
            ELSE LET m == definition_match_at(t, MinOf({s \in starts : s >= pos}))
                 IN  <<m>> \o Scan(m.end)
    IN  Scan(0)

\* clause_extraction.py:92 keeping the value a term already has
dict_set_keep_first(d, key, value) ==
    IF key \in DictKeys(d) THEN d
    ELSE Append(d, [key |-> key, value |-> value])

\* clause_extraction.py:92: definitions[term] = definition on the items list
\* of the dict: a present key keeps its place and takes the new value
dict_set(d, key, value) ==
    IF key \in DictKeys(d)
    THEN [i \in 1..Len(d) |->
             IF d[i].key = key THEN [key |-> key, value |-> value] ELSE d[i]]
    ELSE Append(d, [key |-> key, value |-> value])

\* clause_extraction.py:89-92: the loop over the matches
RECURSIVE set_definitions(_, _)
set_definitions(d, matches) ==
    IF Len(matches) = 0 THEN d
    ELSE set_definitions(dict_set(d, Strip(Head(matches).group1),
                                  Strip(Head(matches).group2)),
                         Tail(matches))

\* clause_extraction.py:80-94
extract_definitions(t) == set_definitions(<<>>, definition_matches(t))

----------------------------------------------------------------------------
(* Specification of extract_definitions over bounded texts *)

MaxSentences == 3

DefinitionSentences ==
    {"\"Fee\" means the price.",
     "\"Fee\" IS 1.5 percent.",
     "\"Fee \" shall be paid. Later.",
     "\"Term\"refers to  the lease .",
     "\"Open means x.",
     "\"Void\" means.",
     "\"fee\" is\nlower.",
     "\"Gap\" Means ."}

DefinitionTexts ==
    {JoinWords(ws) :
        ws \in UNION {[1..n -> DefinitionSentences] : n \in 0..MaxSentences}}

InitDefinitions ==
    /\ text \in DefinitionTexts
    /\ definitions = None
    /\ BaseIdle
    /\ EntitiesIdle
    /\ SessionIdle
    /\ FrontIdle

ExtractDefinitions ==
    /\ definitions = None
    /\ definitions' = Some(extract_definitions(text))
    /\ UNCHANGED <<text, base_vars, entities_vars, session_vars, front_vars>>

NextDefinitions == ExtractDefinitions

SpecDefinitions == InitDefinitions /\ [][NextDefinitions]_vars

----------------------------------------------------------------------------
(* Claims about extract_definitions *)

\* the offset of the first period of t at or after the offset o
FirstPeriod(t, o) == MinOf({d \in o..(Len(t) - 1) : At(t, d) = "."})

\* what the text holds between the end of a match's trigger word and the
\* first period after it, that period included, without the blanks around it
ToFirstPeriod(t, m) ==
    Strip(SubSeq(t, m.trigger_end + 1, FirstPeriod(t, m.trigger_end) + 1))

\* C11: when a quoted term is defined several times the mapping holds the
\* definition of its last occurrence in document order, and every stored
\* definition ends at the first period after the trigger word (means, is,
\* shall, refers to, in either case): it is the text between the two.
C11_LastWriteWinsToFirstPeriod ==
    definitions # None =>
        LET d == definitions[1]
            ms == definition_matches(text)
            terms == [k \in 1..Len(ms) |-> Strip(ms[k].group1)]
            last == {k \in 1..Len(ms) :
                        \A j \in (k + 1)..Len(ms) : terms[j] # terms[k]}
        IN  /\ DictKeys(d) = {terms[k] : k \in 1..Len(ms)}
            /\ \A i, j \in 1..Len(d) : d[i].key = d[j].key => i = j
            /\ \A k \in last : DictGet(d, terms[k]) = ToFirstPeriod(text, ms[k])
            /\ \A k \in 1..Len(ms) :
                  \E a \in 1..Len(definition_triggers) :
                      LET w == definition_triggers[a]
                          e == ms[k].trigger_end
                      IN  /\ e >= Len(w)
                          /\ Lower(SubSeq(text, e - Len(w) + 1, e)) = w
            /\ \A i \in 1..Len(d) :
                  LET v == d[i].value
                  IN  /\ Len(v) >= 1
                      /\ Char(v, Len(v)) = "."
                      /\ \A c \in 1..(Len(v) - 1) : Char(v, c) # "."

\* a term defined twice with different definitions holds the later one
C11_Witness ==
    /\ definitions # None
    /\ LET ms == definition_matches(text)
       IN  /\ Len(ms) = 2
           /\ Strip(ms[1].group1) = Strip(ms[2].group1)
           /\ ToFirstPeriod(text, ms[1]) # ToFirstPeriod(text, ms[2])
           /\ Len(definitions[1]) = 1
           /\ definitions[1][1].value = ToFirstPeriod(text, ms[2])

----------------------------------------------------------------------------
(* ContractNER (utils/ner.py) *)

\* \w on ASCII text
WordChars == UpperSet \cup LowerSet \cup Digits \cup {"_"}

IsWord(t, o) == o >= 0 /\ o < Len(t) /\ At(t, o) \in WordChars

\* \b at offset o: a word character on exactly one side
word_boundary(t, o) == IsWord(t, o - 1) # IsWord(t, o)

\* the literal lit stands in t at offset o
LitAt(t, o, lit) == o >= 0 /\ OccursAt(t, lit, o + 1)

\* what a pattern attempted at an offset returns when it does not match
NoMatch == -1

\* re.finditer over the matches a pattern has at each offset, given as
\* [start, end) records: the leftmost match from the cursor, then on from
\* its end (no pattern here matches the empty string)
finditer(hits) ==
    LET RECURSIVE Scan(_)
        Scan(pos) ==
            LET later == {h \in hits : h.start >= pos}
            IN  IF later = {} THEN <<>>
                ELSE LET m == CHOOSE h \in later :
                                  \A g \in later : h.start <= g.start
                     IN  <<m>> \o Scan(m.end)
    IN  Scan(0)

\* [m.group(0) for m in matches]
group0(t, matches) ==
    LET RECURSIVE Build(_)
        Build(k) ==
            IF k = 0 THEN <<>>
            ELSE Append(Build(k - 1),
                        SubSeq(t, matches[k].start + 1, matches[k].end))
    IN  Build(Len(matches))

\* the elements of a list, each once, in the order of their first occurrence
RECURSIVE distinct(_)
distinct(seq) ==
    IF Len(seq) = 0 THEN <<>>
    ELSE LET front == distinct(SubSeq(seq, 1, Len(seq) - 1))
             x == seq[Len(seq)]
         IN  IF \E i \in 1..Len(front) : front[i] = x THEN front
             ELSE Append(front, x)

\* the list back to front
reversed(seq) == [i \in 1..Len(seq) |-> seq[Len(seq) + 1 - i]]

\* the iteration orders of a set of strings that the model tells apart;
\* which one a process has follows from its string hash seed
HashOrders == {"forward", "backward"}

\* ner.py:60 with the duplicates kept
list_keep_duplicates(seq, order) ==
    IF order = "forward" THEN seq ELSE reversed(seq)

\* ner.py:60, 111, 120, 136, 145, 162: list(set(seq)): each element once,
\* in the iteration order of the set
list_set(seq, order) ==
    IF order = "forward" THEN distinct(seq) ELSE reversed(distinct(seq))

\* ner.py:51: \b\d{1,2}/\d{1,2}/\d{4}\b attempted at offset s; each run of
\* digits must end at the character the pattern names next
date_mdy_end(t, s) ==
    LET d1 == RunLen(t, s, Digits)
        a == s + d1 + 1
        d2 == RunLen(t, a, Digits)
        b == a + d2 + 1
        d3 == RunLen(t, b, Digits)
    IN  IF /\ word_boundary(t, s)
           /\ d1 \in 1..2 /\ LitAt(t, s + d1, "/")
           /\ d2 \in 1..2 /\ LitAt(t, a + d2, "/")
           /\ d3 = 4 /\ word_boundary(t, b + 4)
        THEN b + 4 ELSE NoMatch

\* ner.py:52: the month names, as re.IGNORECASE compares them
month_names ==
    <<"january", "february", "march", "april", "may", "june", "july",
      "august", "september", "october", "november", "december">>

\* ner.py:52: \b(January|...|December)\s+\d{1,2},?\s+\d{4}\b attempted at
\* offset s of t, whose lower-case form is tl
date_month_end(t, tl, s) ==
    LET named == {k \in 1..Len(month_names) : LitAt(tl, s, month_names[k])}
        e == s + Len(month_names[CHOOSE k \in named : TRUE])
        w1 == RunLen(t, e, Whitespace)
        d == RunLen(t, e + w1, Digits)
        c == IF LitAt(t, e + w1 + d, ",") THEN 1 ELSE 0
        w2 == RunLen(t, e + w1 + d + c, Whitespace)
        y == e + w1 + d + c + w2
    IN  IF /\ word_boundary(t, s)
           /\ named # {}
           /\ w1 >= 1 /\ d \in 1..2 /\ w2 >= 1
           /\ RunLen(t, y, Digits) = 4 /\ word_boundary(t, y + 4)
        THEN y + 4 ELSE NoMatch

\* ner.py:53: \b\d{4}-\d{1,2}-\d{1,2}\b attempted at offset s
date_ymd_end(t, s) ==
    LET a == s + 5
        d2 == RunLen(t, a, Digits)
        b == a + d2 + 1
        d3 == RunLen(t, b, Digits)
    IN  IF /\ word_boundary(t, s)
           /\ RunLen(t, s, Digits) = 4 /\ LitAt(t, s + 4, "-")
           /\ d2 \in 1..2 /\ LitAt(t, a + d2, "-")
           /\ d3 \in 1..2 /\ word_boundary(t, b + d3)
        THEN b + d3 ELSE NoMatch

\* the attempts, one [start, end) record for each offset, that matched
matched(attempts) == {h \in attempts : h.end # NoMatch}

\* the offsets of t
Offsets(t) == 0..(Len(t) - 1)

\* ner.py:44-60
_extract_dates(t, order) ==
    LET tl == Lower(t)
        mdy == {[start |-> s, end |-> date_mdy_end(t, s)] : s \in Offsets(t)}
        month == {[start |-> s, end |-> date_month_end(t, tl, s)] : s \in Offsets(t)}
        ymd == {[start |-> s, end |-> date_ymd_end(t, s)] : s \in Offsets(t)}
        dates == group0(t, finditer(matched(mdy)))
                 \o group0(t, finditer(matched(month)))
                 \o group0(t, finditer(matched(ymd)))
    IN  list_set(dates, order)

\* ner.py:68: the class [\d,]
amount_chars == Digits \cup {","}

\* ner.py:68: the tail [\d,]+(?:\.\d{2})? attempted at offset o: the end of
\* the run, and of the two decimals when they follow it
amount_tail_end(t, o) ==
    LET r == RunLen(t, o, amount_chars)
    IN  IF r = 0 THEN NoMatch
        ELSE IF LitAt(t, o + r, ".") /\ RunLen(t, o + r + 1, Digits) >= 2
        THEN o + r + 3
        ELSE o + r

\* ner.py:68: the currency words, as re.IGNORECASE compares them, the
\* optional plural s apart
currency_words == <<"usd", "dollar", "euro", "cent", "pound">>

\* ner.py:68: \$[\d,]+(?:\.\d{2})?|\b(?:USD|dollars?|euros?|cents?|pounds?)
\* \s*[\d,]+(?:\.\d{2})? attempted at offset s of t, whose lower-case form
\* is tl.  The plural s is taken when it is there: without it the s would
\* have to start the amount.
currency_end(t, tl, s) ==
    LET named == {k \in 1..Len(currency_words) : LitAt(tl, s, currency_words[k])}
        k == CHOOSE k \in named : TRUE
        e == s + Len(currency_words[k])
        p == IF k > 1 /\ LitAt(tl, e, "s") THEN e + 1 ELSE e
    IN  IF LitAt(t, s, "$") THEN amount_tail_end(t, s + 1)
        ELSE IF word_boundary(t, s) /\ named # {}
        THEN amount_tail_end(t, p + RunLen(t, p, Whitespace))
        ELSE NoMatch

\* ner.py:75: \b\d+(?:\.\d{1,2})?\s*% attempted at offset s: the decimals
\* are one or two digits that the blanks or the sign follow
percentage_end(t, s) ==
    LET r == RunLen(t, s, Digits)
        f == IF LitAt(t, s + r, ".") THEN RunLen(t, s + r + 1, Digits) ELSE 0
        a == IF f \in 1..2 THEN s + r + 1 + f ELSE s + r
        p == a + RunLen(t, a, Whitespace)
    IN  IF word_boundary(t, s) /\ r >= 1 /\ LitAt(t, p, "%")
        THEN p + 1 ELSE NoMatch

\* ner.py:72, 78: one (text, kind) pair for each match
amount_pairs(texts, kind) ==
    LET RECURSIVE Build(_)
        Build(k) ==
            IF k = 0 THEN <<>>
            ELSE Append(Build(k - 1), <<texts[k], kind>>)
    IN  Build(Len(texts))

\* ner.py:62-80
_extract_amounts(t) ==
    LET tl == Lower(t)
        currency == {[start |-> s, end |-> currency_end(t, tl, s)] : s \in Offsets(t)}
        percentage == {[start |-> s, end |-> percentage_end(t, s)] : s \in Offsets(t)}
    IN  amount_pairs(group0(t, finditer(matched(currency))), "Currency")
        \o amount_pairs(group0(t, finditer(matched(percentage))), "Percentage")

\* ner.py:88-99
states ==
    <<"Alabama", "Alaska", "Arizona", "Arkansas", "California", "Colorado",
      "Connecticut", "Delaware", "Florida", "Georgia", "Hawaii", "Idaho",
      "Illinois", "Indiana", "Iowa", "Kansas", "Kentucky", "Louisiana",
      "Maine", "Maryland", "Massachusetts", "Michigan", "Minnesota",
      "Mississippi", "Missouri", "Montana", "Nebraska", "Nevada",
      "New Hampshire", "New Jersey", "New Mexico", "New York",
      "North Carolina", "North Dakota", "Ohio", "Oklahoma", "Oregon",
      "Pennsylvania", "Rhode Island", "South Carolina", "South Dakota",
      "Tennessee", "Texas", "Utah", "Vermont", "Virginia", "Washington",
      "West Virginia", "Wisconsin", "Wyoming">>

\* ner.py:106
countries ==
    <<"United States", "United Kingdom", "Canada", "Australia", "India">>

\* ner.py:101-109: the names in the order they are searched, and as
\* re.IGNORECASE compares them
jurisdiction_names == states \o countries
jurisdiction_names_lower ==
    [k \in 1..Len(jurisdiction_names) |-> Lower(jurisdiction_names[k])]

\* ner.py:102, 108: re.search(rf'\b{name}\b', text, re.IGNORECASE) on the
\* lower-case form tl of the text: every name starts with a letter, so the
\* first \b holds at the offsets in word_starts, where a word begins
name_found(tl, word_starts, nl) ==
    \E s \in word_starts :
        /\ LitAt(tl, s, nl)
        /\ word_boundary(tl, s + Len(nl))

\* ner.py:82-111
_extract_jurisdictions(t, order) ==
    LET tl == Lower(t)
        word_starts == {s \in Offsets(tl) : IsWord(tl, s) /\ ~IsWord(tl, s - 1)}
        RECURSIVE Build(_)
        Build(k) ==
            IF k = 0 THEN <<>>
            ELSE IF name_found(tl, word_starts, jurisdiction_names_lower[k])
            THEN Append(Build(k - 1), jurisdiction_names[k])
            ELSE Build(k - 1)
    IN  list_set(Build(Len(jurisdiction_names)), order)

\* ner.py:117: the classes [A-Za-z0-9._%+-], [A-Za-z0-9.-] and [A-Z|a-z]
email_local_chars == UpperSet \cup LowerSet \cup Digits \cup {".", "_", "%", "+", "-"}
email_domain_chars == UpperSet \cup LowerSet \cup Digits \cup {".", "-"}
email_tld_chars == UpperSet \cup LowerSet \cup {"|"}

\* ner.py:117: \b[A-Za-z0-9._%+-]+@[A-Za-z0-9.-]+\.[A-Z|a-z]{2,}\b attempted
\* at offset s.  The local part runs to the @.  The greedy domain gives
\* characters back until a period and two or more characters of the last
\* class follow it, and that last run gives back until a \b follows: the
\* match is the one with the longest domain, then the longest last run.
email_end(t, s) ==
    LET l == RunLen(t, s, email_local_chars)
        a == s + l + 1
        m == RunLen(t, a, email_domain_chars)
        tails == {<<dot, e>> \in ((a + 1)..(a + m - 1)) \X ((a + 4)..Len(t)) :
                     /\ LitAt(t, dot, ".")
                     /\ e >= dot + 3
                     /\ \A i \in (dot + 1)..(e - 1) : At(t, i) \in email_tld_chars
                     /\ word_boundary(t, e)}
        dot == MaxOf({x[1] : x \in tails})
    IN  IF /\ word_boundary(t, s)
           /\ l >= 1 /\ LitAt(t, s + l, "@")
           /\ tails # {}
        THEN MaxOf({x[2] : x \in {y \in tails : y[1] = dot}})
        ELSE NoMatch

\* ner.py:113-120
_extract_emails(t, order) ==
    LET attempts == {[start |-> s, end |-> email_end(t, s)] : s \in Offsets(t)}
    IN  list_set(group0(t, finditer(matched(attempts))), order)

\* ner.py:127: \b\d{3}-\d{3}-\d{4}\b attempted at offset s
phone_dashed_end(t, s) ==
    IF /\ word_boundary(t, s)
       /\ RunLen(t, s, Digits) = 3 /\ LitAt(t, s + 3, "-")
       /\ RunLen(t, s + 4, Digits) = 3 /\ LitAt(t, s + 7, "-")
       /\ RunLen(t, s + 8, Digits) = 4 /\ word_boundary(t, s + 12)
    THEN s + 12 ELSE NoMatch

\* ner.py:128: \b\(\d{3}\)\s*\d{3}-\d{4}\b attempted at offset s
phone_parenthesized_end(t, s) ==
    LET a == s + 5 + RunLen(t, s + 5, Whitespace)
    IN  IF /\ word_boundary(t, s)
           /\ LitAt(t, s, "(")
           /\ RunLen(t, s + 1, Digits) = 3 /\ LitAt(t, s + 4, ")")
           /\ RunLen(t, a, Digits) = 3 /\ LitAt(t, a + 3, "-")
           /\ RunLen(t, a + 4, Digits) = 4 /\ word_boundary(t, a + 8)
        THEN a + 8 ELSE NoMatch

\* ner.py:129: \b\d{10}\b attempted at offset s
phone_bare_end(t, s) ==
    IF /\ word_boundary(t, s)
       /\ RunLen(t, s, Digits) = 10 /\ word_boundary(t, s + 10)
    THEN s + 10 ELSE NoMatch

\* ner.py:122-136
_extract_phone_numbers(t, order) ==
    LET dashed == {[start |-> s, end |-> phone_dashed_end(t, s)] : s \in Offsets(t)}
        parenthesized == {[start |-> s, end |-> phone_parenthesized_end(t, s)] :
                             s \in Offsets(t)}
        bare == {[start |-> s, end |-> phone_bare_end(t, s)] : s \in Offsets(t)}
        phones == group0(t, finditer(matched(dashed)))
                  \o group0(t, finditer(matched(parenthesized)))
                  \o group0(t, finditer(matched(bare)))
    IN  list_set(phones, order)

\* ner.py:142: https?://[^\s]+ attempted at offset s
url_end(t, s) ==
    LET a == IF LitAt(t, s, "https://") THEN s + 8
             ELSE IF LitAt(t, s, "http://") THEN s + 7
             ELSE NoMatch
        r == CHOOSE n \in 0..Max(0, Len(t) - a) :
                 /\ \A i \in a..(a + n - 1) : At(t, i) \notin Whitespace
                 /\ a + n >= Len(t) \/ At(t, a + n) \in Whitespace
    IN  IF a # NoMatch /\ r >= 1 THEN a + r ELSE NoMatch

\* ner.py:138-145
_extract_urls(t, order) ==
    LET attempts == {[start |-> s, end |-> url_end(t, s)] : s \in Offsets(t)}
    IN  list_set(group0(t, finditer(matched(attempts))), order)

\* ner.py:154: the class [A-Z] under re.IGNORECASE, and [A-Za-z\s&,]
party_first_chars == UpperSet \cup LowerSet
party_chars == UpperSet \cup LowerSet \cup Whitespace \cup {"&", ","}

\* ner.py:154: the literal alternatives of the leading group, as
\* re.IGNORECASE compares them, in the order the pattern tries them; the
\* last alternative, by\s+and\s+between, follows them
party_keywords ==
    <<"between", "party", "parties", "inc.", "llc", "corp", "corporation",
      "company">>

\* ner.py:154: the characters an alternative of the leading group starts with
party_keyword_initials == {"b", "p", "i", "l", "c"}

\* ner.py:154: by\s+and\s+between attempted at offset s of the lower-case
\* text tl
by_and_between_end(tl, s) ==
    LET a == s + 2 + RunLen(tl, s + 2, Whitespace)
        b == a + 3 + RunLen(tl, a + 3, Whitespace)
    IN  IF /\ LitAt(tl, s, "by") /\ a > s + 2
           /\ LitAt(tl, a, "and") /\ b > a + 3
           /\ LitAt(tl, b, "between")
        THEN b + 7 ELSE NoMatch

\* ner.py:154: the closing group (?:,|\.|\s+and\s+) attempted at offset x
party_stop_end(tl, x) ==
    LET a == x + RunLen(tl, x, Whitespace)
        w == RunLen(tl, a + 3, Whitespace)
    IN  IF LitAt(tl, x, ",") \/ LitAt(tl, x, ".") THEN x + 1
        ELSE IF a > x /\ LitAt(tl, a, "and") /\ w >= 1 THEN a + 3 + w
        ELSE NoMatch

\* ner.py:154: \s+([A-Z][A-Za-z\s&,]+?)(?:,|\.|\s+and\s+) attempted at the
\* offset e where a keyword ended: the name starts after the blanks, and the
\* lazy class takes one character and then stops at the first offset where
\* the closing group matches
party_name_match(tl, e) ==
    LET g == e + RunLen(tl, e, Whitespace)
        stops == {x \in (g + 2)..(Len(tl) - 1) :
                     /\ party_stop_end(tl, x) # NoMatch
                     /\ \A i \in (g + 1)..(x - 1) : At(tl, i) \in party_chars}
    IN  IF /\ g > e /\ g < Len(tl) /\ At(tl, g) \in party_first_chars
           /\ stops # {}
        THEN [ok |-> TRUE, name_start |-> g, name_end |-> MinOf(stops),
              end |-> party_stop_end(tl, MinOf(stops))]
        ELSE [ok |-> FALSE, name_start |-> e, name_end |-> e, end |-> NoMatch]

\* ner.py:154: the whole pattern attempted at offset s: the first
\* alternative of the leading group after which the rest matches
party_match_at(tl, s) ==
    LET ends == [k \in 1..(Len(party_keywords) + 1) |->
                    IF k <= Len(party_keywords)
                    THEN IF LitAt(tl, s, party_keywords[k])
                         THEN s + Len(party_keywords[k]) ELSE NoMatch
                    ELSE by_and_between_end(tl, s)]
        full == {k \in 1..(Len(party_keywords) + 1) :
                    ends[k] # NoMatch /\ party_name_match(tl, ends[k]).ok}
    IN  IF At(tl, s) \notin party_keyword_initials \/ full = {} THEN [ok |-> FALSE, name_start |-> s, name_end |-> s,
                           end |-> NoMatch]
        ELSE party_name_match(tl, ends[MinOf(full)])

\* Python's str.rstrip(chars)
rstrip(s, chars) ==
    IF \A i \in 1..Len(s) : Char(s, i) \in chars THEN ""
    ELSE SubSeq(s, 1, MaxOf({i \in 1..Len(s) : Char(s, i) \notin chars}))

\* ner.py:159: if len(party) > 2
party_kept(party) == Len(party) > 2

\* ner.py:147-162
_extract_parties(t, order) ==
    LET tl == Lower(t)
        attempts == {[start |-> s, at |-> party_match_at(tl, s)] : s \in Offsets(t)}
        matches == finditer({[start |-> a.start, end |-> a.at.end,
                              name_start |-> a.at.name_start,
                              name_end |-> a.at.name_end] :
                                 a \in {h \in attempts : h.at.ok}})
        RECURSIVE Build(_)
        Build(k) ==
            IF k = 0 THEN <<>>
            ELSE LET group1 == SubSeq(t, matches[k].name_start + 1,
                                      matches[k].name_end)
                     party == rstrip(Strip(group1), {",", "."})
                 IN  IF party_kept(party) THEN Append(Build(k - 1), party)
                     ELSE Build(k - 1)
    IN  list_set(Build(Len(matches)), order)

\* an entry of self.entities extended with the new matches instead of replaced
entities_extend(old, value) == old \o value

\* ner.py:34-40: self.entities[key] = value replaces what the entry held
entities_set(old, value) == value

\* ner.py:34-40: the right-hand sides of the seven assignments
entity_matches(t, order) ==
    [dates |-> _extract_dates(t, order),
     amounts |-> _extract_amounts(t),
     jurisdictions |-> _extract_jurisdictions(t, order),
     emails |-> _extract_emails(t, order),
     phone_numbers |-> _extract_phone_numbers(t, order),
     urls |-> _extract_urls(t, order),
     parties |-> _extract_parties(t, order)]

\* ner.py:34-42: the seven assignments to the dict self_entities
entities_update(self_entities, found) ==
    [self_entities EXCEPT
        !.dates = entities_set(@, found.dates),
        !.amounts = entities_set(@, found.amounts),
        !.jurisdictions = entities_set(@, found.jurisdictions),
        !.emails = entities_set(@, found.emails),
        !.phone_numbers = entities_set(@, found.phone_numbers),
        !.urls = entities_set(@, found.urls),
        !.parties = entities_set(@, found.parties)]

\* ner.py:24-42: the entities dict after extract_entities(t) on an instance
\* whose dict was self_entities
extract_entities(self_entities, t, order) ==
    entities_update(self_entities, entity_matches(t, order))

----------------------------------------------------------------------------
(* Specification of ContractNER.extract_entities over bounded texts *)

MaxPhrases == 3

EntityPhrases ==
    {"555-123-4567 or 5551234567",
     "(555) 123-4567",
     "fax(555)123-4567 a@b.co",
     "$1,000.50 or 10% on 1/2/2020",
     "Texas on March 3, 2021 http://x.io",
     "between Acme Corp and Bolt"}

EntityTexts ==
    {JoinWords(ws) :
        ws \in UNION {[1..n -> EntityPhrases] : n \in 0..MaxPhrases}}

InitEntities ==
    /\ text \in EntityTexts
    /\ hash_order \in HashOrders
    /\ entities = new_entities
    /\ entities_result = None
    /\ BaseIdle
    /\ DefinitionsIdle
    /\ SessionIdle
    /\ FrontIdle

\* ner.py:24-42: the call returns the instance's own dict
ExtractEntities ==
    /\ entities_result = None
    /\ entities' = extract_entities(entities, text, hash_order)
    /\ entities_result' = Some(entities')
    /\ UNCHANGED <<text, hash_order, base_vars, definitions_vars, session_vars,
                   front_vars>>

NextEntities == ExtractEntities

SpecEntities == InitEntities /\ [][NextEntities]_vars

----------------------------------------------------------------------------
(* Claims about ContractNER.extract_entities *)

\* no element of the list stands in it twice
NoDuplicates(seq) == \A i, j \in 1..Len(seq) : seq[i] = seq[j] => i = j

\* how many times a $ directly followed by a digit, and how many times a %
\* directly preceded by a digit, is written in t: in the texts of
\* EntityTexts these are the amounts
CurrencyOccurrences(t) ==
    Cardinality({s \in Offsets(t) :
                    At(t, s) = "$" /\ s + 1 < Len(t) /\ At(t, s + 1) \in Digits})
PercentageOccurrences(t) ==
    Cardinality({s \in Offsets(t) :
                    At(t, s) = "%" /\ s >= 1 /\ At(t, s - 1) \in Digits})

\* C12: dates, jurisdictions, emails, phone_numbers, urls and parties never
\* hold the same entry twice; amounts holds one (text, kind) pair for each
\* occurrence of an amount in the text, the currency amounts first, so an
\* amount written twice appears twice.
C12_SetsDedupedAmountsPerOccurrence ==
    entities_result # None =>
        LET e == entities_result[1]
            c == CurrencyOccurrences(text)
        IN  /\ NoDuplicates(e.dates)
            /\ NoDuplicates(e.jurisdictions)
            /\ NoDuplicates(e.emails)
            /\ NoDuplicates(e.phone_numbers)
            /\ NoDuplicates(e.urls)
            /\ NoDuplicates(e.parties)
            /\ Len(e.amounts) = c + PercentageOccurrences(text)
            /\ \A k \in 1..Len(e.amounts) :
                  e.amounts[k][2] = IF k <= c THEN "Currency" ELSE "Percentage"

\* a text that writes the same amounts and the same date twice: the date is
\* held once and each amount twice
C12_Witness ==
    /\ entities_result # None
    /\ text = "$1,000.50 or 10% on 1/2/2020 $1,000.50 or 10% on 1/2/2020"
    /\ entities_result[1].dates = <<"1/2/2020">>
    /\ entities_result[1].amounts =
           <<(<<"$1,000.50", "Currency">>), (<<"$1,000.50", "Currency">>),
             (<<"10%", "Percentage">>), (<<"10%", "Percentage">>)>>

\* the string is three digits, a dash, three digits, a dash and four digits
IsDashedPhone(p) ==
    /\ Len(p) = 12
    /\ \A i \in 1..12 : IF i \in {4, 8} THEN Char(p, i) = "-"
                        ELSE Char(p, i) \in Digits

\* the string is three digits in parentheses, a blank, three digits, a dash
\* and four digits
IsParenthesizedPhone(p) ==
    /\ Len(p) = 14
    /\ \A i \in 1..14 : CASE i = 1 -> Char(p, i) = "("
                          [] i = 5 -> Char(p, i) = ")"
                          [] i = 6 -> Char(p, i) = " "
                          [] i = 10 -> Char(p, i) = "-"
                          [] OTHER -> Char(p, i) \in Digits

\* the string is ten digits
IsBarePhone(p) == Len(p) = 10 /\ \A i \in 1..10 : Char(p, i) \in Digits

\* the phone numbers that stand in t as tokens of their own: at the start of
\* the text or after a blank, and up to the end of the text or a blank
PhoneTokens(t) ==
    {SubSeq(t, s + 1, s + n) : <<s, n>> \in
        {x \in Offsets(t) \X {10, 12, 14} :
            /\ x[1] + x[2] <= Len(t)
            /\ x[1] = 0 \/ At(t, x[1] - 1) \in Whitespace
            /\ x[1] + x[2] = Len(t) \/ At(t, x[1] + x[2]) \in Whitespace
            /\ LET p == SubSeq(t, x[1] + 1, x[1] + x[2])
               IN  IsDashedPhone(p) \/ IsParenthesizedPhone(p) \/ IsBarePhone(p)}}

\* C13: a phone number written as XXX-XXX-XXXX, as (XXX) XXX-XXXX or as ten
\* digits, standing as a token of its own, is in phone_numbers.
C13_AllPhoneFormatsRecognised ==
    entities_result # None =>
        PhoneTokens(text) \subseteq
            {entities_result[1].phone_numbers[i] :
                i \in 1..Len(entities_result[1].phone_numbers)}

----------------------------------------------------------------------------
(* extract_text_from_file (text_extraction.py) *)

\* Python's s.endswith(suffix)
endswith(s, suffix) ==
    /\ Len(s) >= Len(suffix)
    /\ SubSeq(s, Len(s) - Len(suffix) + 1, Len(s)) = suffix

\* Python's sep.join(texts)
RECURSIVE join(_, _)
join(sep, texts) ==
    IF Len(texts) = 0 THEN ""
    ELSE IF Len(texts) = 1 THEN texts[1]
    ELSE texts[1] \o sep \o join(sep, Tail(texts))

\* text_extraction.py:38-39, 52: the texts that are not blank
RECURSIVE non_blank(_)
non_blank(texts) ==
    IF Len(texts) = 0 THEN <<>>
    ELSE (IF Strip(Head(texts)) # "" THEN <<Head(texts)>> ELSE <<>>)
         \o non_blank(Tail(texts))

\* The optional libraries of the environment.  An import of one that is not
\* installed raises ImportError with this message.
Libraries == {"PyPDF2", "docx", "fpdf"}

import_error(module) == "No module named '" \o module \o "'"

\* An uploaded file is its name and its data.  The data are described by
\* what each reader makes of the bytes:
\*   decoded     data.decode("utf-8", errors="replace")
\*   pages       Some(the extract_text() of each page, "" where it gives
\*               None) when PdfReader reads the data, None when PdfReader or
\*               extract_text raises
\*   paragraphs  Some(the text of each paragraph) when Document reads the
\*               data, None when it raises
\*   error       str(e) of the exception a reader raises on these data
text_data(decoded) ==
    [decoded |-> decoded, pages |-> None, paragraphs |-> None,
     error |-> "EOF marker not found"]

pdf_data(pages) ==
    [decoded |-> "%PDF-1.4", pages |-> Some(pages), paragraphs |-> None,
     error |-> "File is not a zip file"]

docx_data(paragraphs) ==
    [decoded |-> "PK", pages |-> None, paragraphs |-> Some(paragraphs),
     error |-> "EOF marker not found"]

\* text_extraction.py:40 with an empty text for a PDF without text
no_pdf_text_empty == ""

\* text_extraction.py:40
no_pdf_text == "[No text extracted from PDF]"

\* text_extraction.py:31-42
_extract_pdf(data, libraries) ==
    IF "PyPDF2" \notin libraries
    THEN "[PDF extraction error: " \o import_error("PyPDF2") \o "]"
    ELSE IF data.pages = None
    THEN "[PDF extraction error: " \o data.error \o "]"
    ELSE LET texts == non_blank(data.pages[1])
         IN  IF Len(texts) > 0 THEN join("\n\n", texts) ELSE no_pdf_text

\* text_extraction.py:45-53
_extract_docx(data, libraries) ==
    IF "docx" \notin libraries
    THEN "[DOCX extraction error: " \o import_error("docx") \o "]"
    ELSE IF data.paragraphs = None
    THEN "[DOCX extraction error: " \o data.error \o "]"
    ELSE LET texts == non_blank(data.paragraphs[1])
         IN  IF Len(texts) > 0 THEN join("\n\n", texts)
             ELSE "[No text extracted from DOCX]"

\* text_extraction.py:56-62: decoding with errors="replace" does not raise
_extract_txt(data) == data.decoded

\* text_extraction.py:8-28
extract_text_from_file(file, libraries) ==
    LET name == Lower(file.name)
        data == file.data
    IN  IF endswith(name, ".pdf") THEN _extract_pdf(data, libraries)
        ELSE IF endswith(name, ".docx") THEN _extract_docx(data, libraries)
        ELSE IF endswith(name, ".txt") THEN _extract_txt(data)
        ELSE "[Unsupported file type]"

\* the two-clause contract
ScenarioText ==
    "1. TERMINATION\nThis agreement may be terminated with 30 days notice.\n"
    \o "2. CONFIDENTIALITY\nAll information is confidential."

\* a contract with a definition, two amounts and a penalty
FeesText == "1. FEES\n\"Fee\" means a penalty of $5 or 5%."

\* the files a user uploads
UploadedFiles ==
    {[name |-> "lease.txt", data |-> text_data(ScenarioText)],
     [name |-> "Fees.PDF", data |-> pdf_data(<<FeesText, " \n", "Texas">>)],
     [name |-> "scan.pdf", data |-> pdf_data(<<"", "  ">>)],
     [name |-> "notes.pdf", data |-> text_data(FeesText)],
     [name |-> "fees.docx", data |-> docx_data(<<FeesText, "", "2. TERM">>)],
     [name |-> "empty.docx", data |-> docx_data(<<>>)],
     [name |-> "lease.docx", data |-> pdf_data(<<ScenarioText>>)],
     [name |-> "old lease.doc", data |-> docx_data(<<ScenarioText>>)]}

\* the texts extract_text_from_file gives for these files
AppTexts ==
    {extract_text_from_file(file, libraries) :
        file \in UploadedFiles, libraries \in SUBSET Libraries}

----------------------------------------------------------------------------
(* A client that keeps one RiskDetectionEngine, one ContractNER and one     *)
(* ContractClassifier and calls the analyzers again and again               *)

MaxCalls == 3

SessionTexts == {"", ScenarioText, FeesText}

\* the texts the analyzers are given
AnalyzedTexts == SessionTexts \cup AppTexts

\* What the analyzers compute from these texts: each table holds the value of
\* the named function for each text.

TextClauses ==
    [t \in AnalyzedTexts |->
        [clauses |-> extract_clauses(t), spans |-> clause_spans(t)]]

TextDefinitions == [t \in AnalyzedTexts |-> extract_definitions(t)]

TextClassifications == [t \in AnalyzedTexts |-> classify_contract(t)]

TextSentences == [t \in AnalyzedTexts |-> risk_sentences(t)]

TextMatches ==
    [order \in HashOrders |->
        [t \in AnalyzedTexts |-> entity_matches(t, order)]]

\* contract_classifier.py:46, risk_detection.py:65-67, ner.py:12-22: the
\* three instances after construction, before any call
InitSession ==
    /\ text = ""
    /\ hash_order \in HashOrders
    /\ entities = new_entities
    /\ entities_result = None
    /\ calls = 0
    /\ history = <<>>
    /\ BaseIdle
    /\ DefinitionsIdle
    /\ FrontIdle

\* what the client notes of a call
Called(analyzer, t, output) ==
    Append(history, [analyzer |-> analyzer, text |-> t, output |-> output])

\* clause_extraction.py:8-49: extract_clauses(t)
CallExtractClauses ==
    \E t \in SessionTexts :
        /\ calls < MaxCalls
        /\ calls' = calls + 1
        /\ text' = t
        /\ \E found \in {TextClauses[t]} :
               /\ clauses' = Some(found.clauses)
               /\ spans' = found.spans
        /\ history' = Called("extract_clauses", t, clauses'[1])
        /\ UNCHANGED <<front_vars, risks_arg, risk_result, detected_risks, called,
                       classification, definitions_vars, entities_vars>>

\* clause_extraction.py:80-94: extract_definitions(t)
CallExtractDefinitions ==
    \E t \in SessionTexts :
        /\ calls < MaxCalls
        /\ calls' = calls + 1
        /\ text' = t
        /\ definitions' = Some(TextDefinitions[t])
        /\ history' = Called("extract_definitions", t, definitions'[1])
        /\ UNCHANGED <<front_vars, base_vars, entities_vars>>

\* ner.py:24-42: extract_entities(t) on the session's ContractNER
CallExtractEntities ==
    \E t \in SessionTexts :
        /\ calls < MaxCalls
        /\ calls' = calls + 1
        /\ text' = t
        /\ entities' = entities_update(entities, TextMatches[hash_order][t])
        /\ entities_result' = Some(entities')
        /\ history' = Called("extract_entities", t, entities')
        /\ UNCHANGED <<front_vars, hash_order, base_vars, definitions_vars>>

\* risk_detection.py:69-101: detect_risks(t) on the session's engine
CallDetectRisks ==
    \E t \in SessionTexts :
        /\ calls < MaxCalls
        /\ calls' = calls + 1
        /\ text' = t
        /\ detected_risks' = detect_risks_from(detected_risks,
                                              TextSentences[t])
        /\ called' = TRUE
        /\ history' = Called("detect_risks", t, detected_risks')
        /\ UNCHANGED <<front_vars, risks_arg, risk_result, classification, clauses, spans,
                       definitions_vars, entities_vars>>

\* streamlit_app.py:210-211: the score of the findings detect_risks returned
CallCalculateRiskScore ==
    /\ calls < MaxCalls
    /\ called
    /\ calls' = calls + 1
    /\ risks_arg' = detected_risks
    /\ risk_result' = Some(calculate_risk_score(detected_risks))
    /\ UNCHANGED <<front_vars, text, detected_risks, called, classification, clauses, spans,
                   definitions_vars, entities_vars, history>>

\* contract_classifier.py:46-82: classify_contract(t)
CallClassifyContract ==
    \E t \in SessionTexts :
        /\ calls < MaxCalls
        /\ calls' = calls + 1
        /\ text' = t
        /\ classification' = Some(TextClassifications[t])
        /\ history' = Called("classify_contract", t, classification'[1])
        /\ UNCHANGED <<front_vars, risks_arg, risk_result, detected_risks, called, clauses,
                       spans, definitions_vars, entities_vars>>

NextSession ==
    \/ CallExtractClauses
    \/ CallExtractDefinitions
    \/ CallExtractEntities
    \/ CallDetectRisks
    \/ CallCalculateRiskScore
    \/ CallClassifyContract

SpecSession == InitSession /\ [][NextSession]_vars


----------------------------------------------------------------------------
(* Claims about a session of calls *)

HistoryOf(analyzer, t) ==
    {i \in DOMAIN history :
        history[i].analyzer = analyzer /\ history[i].text = t}

ScenarioClauses(cs) ==
    /\ Len(cs) = 2
    /\ cs[1].number = "1" /\ cs[1].heading = "TERMINATION"
    /\ cs[2].number = "2" /\ cs[2].heading = "CONFIDENTIALITY"

ScenarioFindings(rs) ==
    /\ {rs[i].type : i \in DOMAIN rs} = {"Termination Clauses", "Confidentiality"}
    /\ \A i \in DOMAIN rs : rs[i].risk_level = "medium"

\* C14: on the two-clause scenario text extract_clauses yields exactly the
\* clauses "1" TERMINATION and "2" CONFIDENTIALITY, detect_risks yields
\* findings of exactly the types Termination Clauses and Confidentiality,
\* both medium, and calculate_risk_score on them gives 15 and Low Risk
C14_ScenarioOutputs ==
    /\ \A i \in HistoryOf("extract_clauses", ScenarioText) :
           ScenarioClauses(history[i].output)
    /\ \A i \in HistoryOf("detect_risks", ScenarioText) :
           ScenarioFindings(history[i].output)
    /\ (risk_result # None /\ ScenarioFindings(risks_arg))
           => risk_result = Some(<<15, "Low Risk">>)

C14_Witness ==
    /\ HistoryOf("extract_clauses", ScenarioText) # {}
    /\ HistoryOf("detect_risks", ScenarioText) # {}
    /\ risk_result # None
    /\ ScenarioFindings(risks_arg)

EmptyEntities(e) ==
    /\ DOMAIN e = {"parties", "dates", "amounts", "jurisdictions", "emails",
                   "phone_numbers", "urls"}
    /\ \A k \in DOMAIN e : e[k] = <<>>

\* C15: on the empty string extract_clauses returns an empty list,
\* extract_definitions an empty mapping, extract_entities seven empty
\* collections, detect_risks an empty list whose score is (0, Low Risk),
\* and classify_contract General Contract with confidence 0
C15_TotalOnEmptyInput ==
    /\ \A i \in HistoryOf("extract_clauses", "") : history[i].output = <<>>
    /\ \A i \in HistoryOf("extract_definitions", "") : history[i].output = <<>>
    /\ \A i \in HistoryOf("extract_entities", "") :
           EmptyEntities(history[i].output)
    /\ \A i \in HistoryOf("detect_risks", "") : history[i].output = <<>>
    /\ \A i \in HistoryOf("classify_contract", "") :
           /\ history[i].output.primary_type = "General Contract"
           /\ history[i].output.confidence = 0
    /\ (risk_result # None /\ risks_arg = <<>>)
           => risk_result = Some(<<0, "Low Risk">>)

C15_Witness ==
    /\ Len(history) = 2
    /\ history[1].analyzer = "detect_risks"
    /\ history[1].output # <<>>
    /\ history[2].analyzer = "detect_risks"
    /\ history[2].text = ""
    /\ risk_result # None
    /\ risks_arg = <<>>

\* C16: two calls of the same analyzer on the same text return the same
\* output, whatever was called in between
C16_Idempotent ==
    \A i, j \in DOMAIN history :
        (history[i].analyzer = history[j].analyzer
            /\ history[i].text = history[j].text)
        => history[i].output = history[j].output

C16_Witness ==
    /\ Len(history) = 3
    /\ \A i \in 1..3 : history[i].analyzer = "extract_entities"
    /\ history[1].text = history[3].text
    /\ history[1].output.amounts # <<>>
    /\ history[2].text = ScenarioText

----------------------------------------------------------------------------
(* ClauseExplainer (clause_explainer.py) *)

\* clause_explainer.py:12-92
CLAUSE_EXPLANATIONS ==
    <<[key |-> "Termination",
       value |->
           [explanation |->
                "This clause specifies the conditions and procedures for ending the contract.",
            key_points |->
                <<"Define notice periods required",
                  "Specify termination for-cause vs. without-cause",
                  "Detail post-termination obligations",
                  "State severance/exit fees if any">>,
            tips |->
                "Ensure notice periods are reasonable and align with business needs."]],
      [key |-> "Confidentiality",
       value |->
           [explanation |->
                "This clause protects sensitive business information from unauthorized disclosure.",
            key_points |->
                <<"Define what qualifies as Confidential Information",
                  "Specify duration of confidentiality obligation",
                  "List exceptions (public knowledge, independently developed)",
                  "Detail remedies for breach">>,
            tips |->
                "Clarify what information is covered and how long protection lasts."]],
      [key |-> "Indemnity",
       value |->
           [explanation |->
                "One party agrees to cover losses of the other party if certain events occur.",
            key_points |->
                <<"Define indemnifiable events clearly",
                  "Specify indemnifying party's obligations",
                  "Cap indemnification limits if possible",
                  "Require prompt notice of claims">>,
            tips |->
                "Negotiate caps on indemnification liability to limit exposure."]],
      [key |-> "Non-Competition",
       value |->
           [explanation |->
                "Restricts one party from engaging in competing business during and after the contract.",
            key_points |->
                <<"Geographic scope of restriction",
                  "Time period of non-compete",
                  "Specific activities restricted",
                  "Exceptions or carve-outs">>,
            tips |->
                "Ensure non-compete is narrowly tailored to protect legitimate interests."]],
      [key |-> "Compensation",
       value |->
           [explanation |->
                "Details how payment will be made for services or goods provided.",
            key_points |->
                <<"Payment amount clearly stated",
                  "Payment schedule and frequency",
                  "What triggers payment obligations",
                  "Adjustment mechanisms if any">>,
            tips |->
                "Specify exact amounts and payment dates to avoid disputes."]],
      [key |-> "Intellectual Property",
       value |->
           [explanation |->
                "Determines ownership of creations and inventions made during the contract term.",
            key_points |->
                <<"Ownership of work product",
                  "Pre-existing IP rights preserved",
                  "Scope of IP assignment if any",
                  "License grants">>,
            tips |->
                "Protect your pre-existing IP and clarify ownership of work created."]],
      [key |-> "Limitation of Liability",
       value |->
           [explanation |->
                "Caps the amount one party can claim from another in case of breach or damage.",
            key_points |->
                <<"Excluded damages (e.g., consequential)",
                  "Liability caps or limits",
                  "Damages calculation method",
                  "Exceptions to limitations">>,
            tips |->
                "Understand which damages are excluded and negotiate reasonable caps."]],
      [key |-> "Governing Law",
       value |->
           [explanation |->
                "Specifies which jurisdiction's laws will interpret and enforce the contract.",
            key_points |->
                <<"Choice of law (which state/country)",
                  "Jurisdiction for disputes",
                  "Dispute resolution method (litigation vs. arbitration)">>,
            tips |->
                "Choose a neutral jurisdiction if possible."]]>>

\* clause_explainer.py:94-120
ALTERNATIVE_CLAUSES ==
    <<[key |-> "Termination",
       value |->
           <<"Multi-tier notice: 30 days for without-cause, 10 days for cause with cure period",
             "Immediate termination for material breach with 30-day cure opportunity",
             "Termination for convenience with 60-day notice and proportional fee refund">>],
      [key |-> "Confidentiality",
       value |->
           <<"Information ceases to be confidential if it enters public domain without breach",
             "Carve-outs: Information already known, independently developed, received from third parties",
             "Obligation survives termination for 2-3 years">>],
      [key |-> "Indemnity",
       value |->
           <<"Indemnification capped at annual contract value",
             "Indemnifying party not liable for indirect or consequential damages",
             "Indemnified party must mitigate damages and provide prompt notice">>],
      [key |-> "Intellectual Property",
       value |->
           <<"Pre-existing IP retained by creator; only custom work assigned",
             "License back of IP to creator for personal, non-commercial use",
             "Joint ownership of derivative works">>],
      [key |-> "Compensation",
       value |->
           <<"Fixed fee + hourly rate for out-of-scope work",
             "Payment in installments tied to milestones",
             "Annual adjustment tied to inflation (CPI)">>]>>

\* suggest_alternatives with no entry for a type it has no list for
alternatives_default_none == <<>>

\* clause_explainer.py:151-153: the default of ALTERNATIVE_CLAUSES.get
alternatives_default == <<"Consult with legal counsel for alternative language">>

\* clause_explainer.py:132-139
explain_clause(clause_type) ==
    IF clause_type \in DictKeys(CLAUSE_EXPLANATIONS)
    THEN DictGet(CLAUSE_EXPLANATIONS, clause_type)
    ELSE [explanation |->
              "No specific guidance available for " \o clause_type,
          key_points |-> <<"Review the clause carefully in context">>,
          tips |-> "Consider consulting legal counsel for specialized clauses"]

\* clause_explainer.py:151-153
suggest_alternatives(clause_type) ==
    IF clause_type \in DictKeys(ALTERNATIVE_CLAUSES)
    THEN DictGet(ALTERNATIVE_CLAUSES, clause_type)
    ELSE alternatives_default

----------------------------------------------------------------------------
(* Specification of the two lookups of ClauseExplainer *)

\* the keys of both tables, the keys in other spellings, and other names
ClauseTypes ==
    DictKeys(CLAUSE_EXPLANATIONS) \cup DictKeys(ALTERNATIVE_CLAUSES)
    \cup {"", "termination", "TERMINATION", "Termination ", " Indemnity",
          "Non-Compete", "Governing law", "Force Majeure", "Warranty"}

InitExplainer ==
    /\ text = ""
    /\ explanation = None
    /\ alternatives = None
    /\ BaseIdle
    /\ DefinitionsIdle
    /\ EntitiesIdle
    /\ SessionIdle
    /\ AppIdle

ExplainClause ==
    \E clause_type \in ClauseTypes :
        /\ explanation' = Some([clause_type |-> clause_type,
                                output |-> explain_clause(clause_type)])
        /\ UNCHANGED <<text, alternatives, base_vars, definitions_vars,
                       entities_vars, session_vars, app_vars>>

SuggestAlternatives ==
    \E clause_type \in ClauseTypes :
        /\ alternatives' = Some([clause_type |-> clause_type,
                                 output |-> suggest_alternatives(clause_type)])
        /\ UNCHANGED <<text, explanation, base_vars, definitions_vars,
                       entities_vars, session_vars, app_vars>>

NextExplainer ==
    \/ ExplainClause
    \/ SuggestAlternatives

SpecExplainer == InitExplainer /\ [][NextExplainer]_vars

\* the clause types the explainer has an explanation for
ExplainedTypes ==
    {"Termination", "Confidentiality", "Indemnity", "Non-Competition",
     "Compensation", "Intellectual Property", "Limitation of Liability",
     "Governing Law"}

\* the clause types the explainer has alternative wordings for
AlternativeTypes ==
    {"Termination", "Confidentiality", "Indemnity", "Intellectual Property",
     "Compensation"}

StaticEntry(table, key, value) ==
    \E i \in DOMAIN table : table[i].key = key /\ table[i].value = value

IsExplanation(r) ==
    /\ DOMAIN r = {"explanation", "key_points", "tips"}
    /\ Len(r.explanation) > 0
    /\ Len(r.key_points) > 0
    /\ Len(r.tips) > 0

\* C17: explain_clause returns the static record of each of the 8 known
\* clause types and a generic record for every other name;
\* suggest_alternatives returns the static list of each of the 5 known types
\* and a list with exactly one generic entry for every other name
C17_LookupsTotal ==
    /\ Cardinality(ExplainedTypes) = 8
    /\ Cardinality(AlternativeTypes) = 5
    /\ explanation # None =>
           LET clause_type == explanation[1].clause_type
               r == explanation[1].output
           IN  /\ IsExplanation(r)
               /\ IF clause_type \in ExplainedTypes
                  THEN StaticEntry(CLAUSE_EXPLANATIONS, clause_type, r)
                  ELSE /\ r.explanation =
                              "No specific guidance available for " \o clause_type
                       /\ Len(r.key_points) = 1
                       /\ \A i \in DOMAIN CLAUSE_EXPLANATIONS :
                              CLAUSE_EXPLANATIONS[i].value # r
    /\ alternatives # None =>
           LET clause_type == alternatives[1].clause_type
               r == alternatives[1].output
           IN  IF clause_type \in AlternativeTypes
               THEN StaticEntry(ALTERNATIVE_CLAUSES, clause_type, r)
               ELSE /\ Len(r) = 1
                    /\ \A i \in DOMAIN ALTERNATIVE_CLAUSES :
                           r[1] \notin {ALTERNATIVE_CLAUSES[i].value[j] :
                                           j \in DOMAIN ALTERNATIVE_CLAUSES[i].value}

C17_Witness ==
    /\ explanation # None
    /\ explanation[1].clause_type = "Governing law"
    /\ alternatives # None
    /\ alternatives[1].clause_type = "Governing Law"
    /\ Len(alternatives[1].output) = 1

----------------------------------------------------------------------------
(* save_audit_log (streamlit_app.py) and PDFReportGenerator (pdf_report.py) *)

\* Python's d.get(key, default) on a dict
dict_get(d, key, default) ==
    IF key \in DictKeys(d) THEN DictGet(d, key) ELSE default

\* Python's r.get(key, default) on a dict with fixed keys
record_get(r, key, default) ==
    IF key \in DOMAIN r THEN r[key] ELSE default

UpperChar(c) ==
    IF c \in LowerSet
    THEN Char(UpperLetters, CHOOSE i \in 1..26 : Char(LowerLetters, i) = c)
    ELSE c

\* Python's str.upper() on ASCII text
RECURSIVE Upper(_)
Upper(s) ==
    IF Len(s) = 0 THEN ""
    ELSE IF Len(s) = 1 THEN UpperChar(s)
    ELSE LET h == Len(s) \div 2
         IN  Upper(SubSeq(s, 1, h)) \o Upper(SubSeq(s, h + 1, Len(s)))

\* Python's s.replace(old, new) for a single character old
RECURSIVE replace(_, _, _)
replace(s, old, new) ==
    IF Len(s) = 0 THEN ""
    ELSE IF Len(s) = 1 THEN (IF s = old THEN new ELSE s)
    ELSE LET h == Len(s) \div 2
         IN  replace(SubSeq(s, 1, h), old, new)
             \o replace(SubSeq(s, h + 1, Len(s)), old, new)

\* pathlib: Path(filename).stem for a name without directories: the name up
\* to its last dot, unless that dot is the first or the last character
stem(filename) ==
    LET dots == {i \in 2..(Len(filename) - 1) : Char(filename, i) = "."}
    IN  IF dots = {} THEN filename ELSE SubSeq(filename, 1, MaxOf(dots) - 1)

\* the number of entities in the lists of all categories
entities_total(entities_found) ==
    LET keys == DOMAIN entities_found
        RECURSIVE Sum(_)
        Sum(ks) ==
            IF ks = {} THEN 0
            ELSE LET k == CHOOSE k \in ks : TRUE
                 IN  Len(entities_found[k]) + Sum(ks \ {k})
    IN  Sum(keys)

\* streamlit_app.py:47: len() of the entities dict
entities_len(entities_found) == Cardinality(DOMAIN entities_found)

\* streamlit_app.py:41-50: audit_entry without its timestamp
audit_entry(filename, results) ==
    [filename |-> filename,
     contract_type |-> dict_get(results, "contract_type", <<>>),
     risk_score |-> dict_get(results, "risk_score", 0),
     risk_category |-> dict_get(results, "risk_category", ""),
     entities_count |-> entities_len(dict_get(results, "entities", <<>>)),
     clauses_count |-> Len(dict_get(results, "clauses", <<>>)),
     risks_count |-> Len(dict_get(results, "risks", <<>>))]

\* streamlit_app.py:37-59: the file written, named after safe_name and the
\* time, with the arguments of the call
save_audit_log(filename, results) ==
    [safe_name |-> replace(stem(filename), " ", "_"),
     entry |-> audit_entry(filename, results),
     analysis_results |-> results]

\* pdf_report.py:57-62: an entities line, written when the list is not empty
entity_cells(entities_found, key, label, n) ==
    IF Len(record_get(entities_found, key, <<>>)) > 0
    THEN <<label \o join(", ", Take(entities_found[key], n))>>
    ELSE <<>>

\* pdf_report.py:81-82
RECURSIVE risk_cells(_)
risk_cells(risks) ==
    IF Len(risks) = 0 THEN <<>>
    ELSE <<"- " \o record_get(Head(risks), "type", "Unknown") \o ": "
           \o Upper(record_get(Head(risks), "risk_level", "N/A"))>>
         \o risk_cells(Tail(risks))

\* pdf_report.py:91-92
RECURSIVE clause_cells(_)
clause_cells(found) ==
    IF Len(found) = 0 THEN <<>>
    ELSE <<"Clause " \o record_get(Head(found), "number", "?") \o ": "
           \o Take(record_get(Head(found), "heading", "Unknown"), 50)>>
         \o clause_cells(Tail(found))

\* pdf_report.py:101-109
recommendation_cells(score) ==
    IF score >= 70
    THEN <<"- HIGH RISK: Seek legal review before signing",
           "- Negotiate terms to reduce identified risks">>
    ELSE IF score >= 40
    THEN <<"- MEDIUM RISK: Review key clauses carefully",
           "- Consider negotiating high-risk clauses">>
    ELSE <<"- LOW RISK: Standard contract terms",
           "- Proceed with normal review process">>

\* pdf_report.py:28-113: the texts of the cells written to the page, in
\* order, without the line "Generated: <time>".  confidence is a whole
\* number, which the format .1f writes with ".0".
report_cells(results) ==
    LET type_info == dict_get(results, "contract_type", <<>>)
        entities_found == dict_get(results, "entities", <<>>)
        score == dict_get(results, "risk_score", 0)
        category == dict_get(results, "risk_category", "Unknown")
    IN  <<"CONTRACT ANALYSIS REPORT",
          "Contract: " \o dict_get(results, "filename", "Unknown"),
          "1. Contract Type",
          "Type: " \o record_get(type_info, "primary_type", "Unknown"),
          "Confidence: " \o ToString(record_get(type_info, "confidence", 0))
              \o ".0%",
          "2. Extracted Entities">>
        \o entity_cells(entities_found, "parties", "Parties: ", 3)
        \o entity_cells(entities_found, "jurisdictions", "Jurisdictions: ", 3)
        \o entity_cells(entities_found, "dates", "Key Dates: ", 2)
        \o <<"3. Risk Analysis",
             "Overall Risk Score: " \o ToString(score) \o "/100",
             "Risk Category: " \o category,
             "Key Risks Identified:">>
        \o risk_cells(Take(dict_get(results, "risks", <<>>), 5))
        \o <<"4. Extracted Clauses">>
        \o clause_cells(Take(dict_get(results, "clauses", <<>>), 3))
        \o <<"5. Recommendations">>
        \o recommendation_cells(score)
        \o <<"This report is for informational purposes. "
             \o "Consult legal counsel for definitive advice.">>

\* Python's s.encode(): the bytes that decode to s
encode(encoding, s) == [encoding |-> encoding, decoded |-> s]

\* generate_report returning the bare message of the exception
error_bytes_bare(e) == encode("utf-8", e)

\* pdf_report.py:117-118
error_bytes(e) == encode("utf-8", "[Error generating PDF: " \o e \o "]")

\* pdf_report.py:15-118.  failure is None when no statement of the try block
\* raises and Some(str(e)) when one does; the dict is only read.
generate_report(results, failure) ==
    [output |-> IF failure = None
                THEN encode("latin-1", [document |-> report_cells(results)])
                ELSE error_bytes(failure[1]),
     analysis_results |-> results]

\* what str(e) can be when a statement of generate_report raises with fpdf
\* installed: output() returning a bytearray, a character outside latin-1
FpdfErrors ==
    {"'bytearray' object has no attribute 'encode'",
     "'latin-1' codec can't encode character '\\u2019'"}

\* pdf_report.py:26: the import fails when fpdf is not installed
ReportFailures(libraries) ==
    IF "fpdf" \notin libraries THEN {Some(import_error("fpdf"))}
    ELSE {None} \cup {Some(e) : e \in FpdfErrors}

----------------------------------------------------------------------------
(* The Streamlit script (streamlit_app.py, main): each interaction of the   *)
(* user runs the script from the top                                        *)

MaxRuns == 3

\* streamlit_app.py:18-24: utils.pdf_report imports only the standard library
PDF_AVAILABLE == TRUE

\* streamlit_app.py:142: st.session_state.analysis_results[key] = value with
\* a new dict that holds only the key in place of the item assignment
results_replace(results, key, value) == <<[key |-> key, value |-> value]>>

\* streamlit_app.py:142: st.session_state.analysis_results[key] = value
results_store(results, key, value) == dict_set(results, key, value)

\* streamlit_app.py:27-34 in a process with any of the optional libraries
InitApp ==
    /\ text = ""
    /\ installed \in SUBSET Libraries
    /\ hash_order \in HashOrders
    /\ uploaded_file = None
    /\ raw_text = ""
    /\ analysis_results = <<>>
    /\ audit_logs = <<>>
    /\ pdf_arg = <<>>
    /\ pdf_failure = None
    /\ pdf_bytes = None
    /\ runs = 0
    /\ rerun = None
    /\ script_pc = 0
    /\ tab_order = ScriptOrder
    /\ entities = new_entities
    /\ entities_result = None
    /\ BaseIdle
    /\ DefinitionsIdle
    /\ SessionIdle
    /\ ExplainerIdle

\* what no step of the script touches
ScriptFrame ==
    UNCHANGED <<text, installed, hash_order, tab_order, entities, entities_result,
                base_vars, definitions_vars, session_vars, explainer_vars>>

\* an interaction of the user: Streamlit runs the script from the top with
\* the file in the uploader and the button pressed; the locals of the run
\* before are gone
Interact(file, button) ==
    /\ script_pc = 0
    /\ runs < MaxRuns
    /\ rerun' = Some([file |-> file, button |-> button])
    /\ script_pc' = 1
    /\ pdf_arg' = <<>>
    /\ pdf_failure' = None
    /\ pdf_bytes' = None
    /\ UNCHANGED <<uploaded_file, raw_text, analysis_results, audit_logs, runs>>
    /\ ScriptFrame

\* streamlit_app.py:90-94: the user puts a file into the uploader
Upload ==
    \E file \in UploadedFiles : Interact(file, "none")

\* streamlit_app.py:296: the user presses "Save to Audit Log", shown while a
\* file is in the uploader
ClickSave ==
    /\ uploaded_file # None
    /\ Interact(uploaded_file[1], "save")

\* streamlit_app.py:303: the user presses "Generate PDF Report"
ClickPdf ==
    /\ uploaded_file # None
    /\ PDF_AVAILABLE
    /\ Interact(uploaded_file[1], "pdf")

\* streamlit_app.py:96-100
ExtractText ==
    /\ script_pc = 1
    /\ uploaded_file' = Some(rerun[1].file)
    /\ raw_text' = extract_text_from_file(rerun[1].file, installed)
    /\ script_pc' = 2
    /\ UNCHANGED <<analysis_results, audit_logs, pdf_arg, pdf_failure, pdf_bytes,
                   runs, rerun>>
    /\ ScriptFrame

\* the run stands before the tab: the tabs before it in tab_order are done
AtTab(tab) ==
    /\ script_pc \in 2..(Len(tab_order) + 1)
    /\ tab_order[script_pc - 1] = tab

\* a tab stores its results and the run moves on
TabDone(results) ==
    /\ analysis_results' = results
    /\ script_pc' = script_pc + 1
    /\ UNCHANGED <<uploaded_file, raw_text, audit_logs, pdf_arg, pdf_failure,
                   pdf_bytes, runs, rerun>>
    /\ ScriptFrame

\* streamlit_app.py:134-143: Clauses & Definitions
Tab2 ==
    /\ AtTab("tab2")
    /\ TabDone(results_store(
                   results_store(analysis_results, "clauses",
                                 TextClauses[raw_text].clauses),
                   "definitions", TextDefinitions[raw_text]))

\* streamlit_app.py:163-170: Entities, on a new ContractNER
Tab3 ==
    /\ AtTab("tab3")
    /\ TabDone(results_store(analysis_results, "entities",
                   entities_update(new_entities, TextMatches[hash_order][raw_text])))

\* streamlit_app.py:205-215: Risk Analysis, on a new RiskDetectionEngine
Tab4 ==
    /\ AtTab("tab4")
    /\ \E risks \in {detect_risks_from(<<>>, TextSentences[raw_text])} :
       \E scored \in {calculate_risk_score(risks)} :
           TabDone(results_store(
                       results_store(
                           results_store(analysis_results, "risks", risks),
                           "risk_score", scored[1]),
                       "risk_category", scored[2]))

\* streamlit_app.py:249-256: Classification
Tab5 ==
    /\ AtTab("tab5")
    /\ TabDone(results_store(analysis_results, "contract_type",
                             TextClassifications[raw_text]))

\* the run ends and the script waits for the next interaction
RunDone ==
    /\ runs' = runs + 1
    /\ rerun' = None
    /\ script_pc' = 0
    /\ UNCHANGED <<uploaded_file, raw_text>>
    /\ ScriptFrame

\* the run stands before tab 6 and the button was pressed
AtTab6(button) ==
    /\ script_pc = Len(tab_order) + 2
    /\ rerun[1].button = button

\* streamlit_app.py:272-314: Summary & Download with no button pressed
Tab6 ==
    /\ AtTab6("none")
    /\ UNCHANGED <<analysis_results, audit_logs, pdf_arg, pdf_failure, pdf_bytes>>
    /\ RunDone

\* streamlit_app.py:296-299: "Save to Audit Log" was pressed
Tab6Save ==
    /\ AtTab6("save")
    /\ \E named \in {results_store(analysis_results, "filename",
                                   rerun[1].file.name)} :
           /\ analysis_results' = named
           /\ audit_logs' =
                  Append(audit_logs, save_audit_log(rerun[1].file.name, named))
    /\ UNCHANGED <<pdf_arg, pdf_failure, pdf_bytes>>
    /\ RunDone

\* streamlit_app.py:303-312: "Generate PDF Report" was pressed; failure is
\* what happens inside generate_report
Tab6Pdf ==
    /\ AtTab6("pdf")
    /\ \E failure \in ReportFailures(installed) :
       \E named \in {results_store(analysis_results, "filename",
                                   rerun[1].file.name)} :
       \E report \in {generate_report(named, failure)} :
           /\ pdf_arg' = named
           /\ pdf_failure' = failure
           /\ pdf_bytes' = Some(report.output)
           /\ analysis_results' = report.analysis_results
    /\ UNCHANGED audit_logs
    /\ RunDone

NextApp ==
    \/ Upload
    \/ ClickSave
    \/ ClickPdf
    \/ ExtractText
    \/ Tab2
    \/ Tab3
    \/ Tab4
    \/ Tab5
    \/ Tab6
    \/ Tab6Save
    \/ Tab6Pdf

SpecApp == InitApp /\ [][NextApp]_vars

----------------------------------------------------------------------------
(* Claims about the script *)

\* the script waits for an interaction after a run on a file
AfterRun ==
    /\ script_pc = 0
    /\ uploaded_file # None

\* the value stored in analysis_results under the key
Result(key) == DictGet(analysis_results, key)

AnalysisKeys ==
    {"clauses", "definitions", "entities", "risks", "risk_score",
     "risk_category", "contract_type"}

\* the analyzers' outputs for the text t, by key of analysis_results
Analysed(t, order) ==
    [clauses |-> extract_clauses(t),
     definitions |-> extract_definitions(t),
     entities |-> extract_entities(new_entities, t, order),
     risks |-> detect_risks(t),
     risk_score |-> calculate_risk_score(detect_risks(t))[1],
     risk_category |-> calculate_risk_score(detect_risks(t))[2],
     contract_type |-> classify_contract(t)]

\* these outputs for the texts the files give
AnalysedTexts ==
    [order \in HashOrders |-> [t \in AppTexts |-> Analysed(t, order)]]

\* analysis_results holds, under the seven keys, the analyzers' outputs for t
HoldsAnalysisOf(t) ==
    /\ AnalysisKeys \subseteq DictKeys(analysis_results)
    /\ \A key \in AnalysisKeys : Result(key) = AnalysedTexts[hash_order][t][key]

\* the file has an extension that is not handled, or needs a library that
\* is not installed, or is not read by its library, or holds no text
ExtractionFails(file, libraries) ==
    LET name == Lower(file.name)
        pdf == endswith(name, ".pdf")
        docx == endswith(name, ".docx")
        txt == endswith(name, ".txt")
        NoText(texts) == \A i \in 1..Len(texts) : Strip(texts[i]) = ""
    IN  \/ ~pdf /\ ~docx /\ ~txt
        \/ /\ pdf
           /\ \/ "PyPDF2" \notin libraries
              \/ file.data.pages = None
              \/ NoText(file.data.pages[1])
        \/ /\ ~pdf
           /\ docx
           /\ \/ "docx" \notin libraries
              \/ file.data.paragraphs = None
              \/ NoText(file.data.paragraphs[1])

\* C18: a failed extraction (unsupported extension, unreadable PDF or DOCX,
\* missing library, container without text) raises nothing: the run ends,
\* raw_text is a placeholder beginning with "[", and the analysis results
\* are the analyzers' outputs for that placeholder as for any other text.
C18_PlaceholderAnalysedAsText ==
    (AfterRun /\ ExtractionFails(uploaded_file[1], installed)) =>
        /\ Take(raw_text, 1) = "["
        /\ HoldsAnalysisOf(raw_text)

\* PdfReader raises on a file that is no PDF: the message becomes the text
\* and the run ends with an analysis of it
C18_Witness ==
    /\ AfterRun
    /\ uploaded_file[1].name = "notes.pdf"
    /\ "PyPDF2" \in installed
    /\ ExtractionFails(uploaded_file[1], installed)
    /\ raw_text = "[PDF extraction error: EOF marker not found]"
    /\ Result("clauses") = <<>>
    /\ Result("contract_type").primary_type = "General Contract"
    /\ Result("risk_score") = 0

\* C19: when a statement of generate_report raises, the run still ends: the
\* value returned is the UTF-8 bytes of a string beginning with
\* "[Error generating PDF:" and the analysis result handed in is unchanged.
C19_ExportFailureReturned ==
    (script_pc = 0 /\ pdf_bytes # None /\ pdf_failure # None) =>
        /\ pdf_bytes[1].encoding = "utf-8"
        /\ Take(pdf_bytes[1].decoded, 22) = "[Error generating PDF:"
        /\ analysis_results = pdf_arg

\* fpdf is installed and its output() gives a bytearray: the call of encode
\* raises inside the try block and the message comes back as bytes
C19_Witness ==
    /\ script_pc = 0
    /\ "fpdf" \in installed
    /\ pdf_failure = Some("'bytearray' object has no attribute 'encode'")
    /\ pdf_bytes # None
    /\ pdf_bytes[1].decoded
          = "[Error generating PDF: 'bytearray' object has no attribute 'encode']"
    /\ DictGet(pdf_arg, "filename") = uploaded_file[1].name
    /\ analysis_results = pdf_arg

\* C20: every audit-log entry records the number of entities extracted, the
\* number of clauses and the number of risk findings of the analysis result
\* it was written for.
C20_AuditCounts ==
    \A i \in 1..Len(audit_logs) :
        LET entry == audit_logs[i].entry
            results == audit_logs[i].analysis_results
        IN  /\ entry.entities_count = entities_total(DictGet(results, "entities"))
            /\ entry.clauses_count = Len(DictGet(results, "clauses"))
            /\ entry.risks_count = Len(DictGet(results, "risks"))

\* C21: after a run on a newly uploaded document every field of the
\* session's analysis result belongs to that document: the seven analysis
\* fields are the analyzers' outputs for its text and filename, where
\* present, is its name.
C21_FreshResultPerUpload ==
    AfterRun =>
        /\ HoldsAnalysisOf(raw_text)
        /\ "filename" \in DictKeys(analysis_results)
              => Result("filename") = uploaded_file[1].name

----------------------------------------------------------------------------
(* The script with its analysis tabs taken in any order *)

\* every order of the four analysis tabs
TabOrders ==
    {order \in [1..Len(ScriptOrder) -> {ScriptOrder[i] : i \in 1..Len(ScriptOrder)}] :
        \A i, j \in 1..Len(ScriptOrder) : order[i] = order[j] => i = j}

\* as InitApp, with every library installed and the tabs in any order
InitOrder ==
    /\ text = ""
    /\ installed = Libraries
    /\ hash_order \in HashOrders
    /\ uploaded_file = None
    /\ raw_text = ""
    /\ analysis_results = <<>>
    /\ audit_logs = <<>>
    /\ pdf_arg = <<>>
    /\ pdf_failure = None
    /\ pdf_bytes = None
    /\ runs = 0
    /\ rerun = None
    /\ script_pc = 0
    /\ tab_order \in TabOrders
    /\ entities = new_entities
    /\ entities_result = None
    /\ BaseIdle
    /\ DefinitionsIdle
    /\ SessionIdle
    /\ ExplainerIdle

SpecOrder == InitOrder /\ [][NextApp]_vars

\* the keys of analysis_results each tab assigns
TabKeys ==
    [tab2 |-> {"clauses", "definitions"},
     tab3 |-> {"entities"},
     tab4 |-> {"risks", "risk_score", "risk_category"},
     tab5 |-> {"contract_type"}]

\* the tabs the run under way has been through, all of them between runs
TabsDone ==
    IF script_pc = 0 THEN DOMAIN TabKeys
    ELSE {tab_order[j] : j \in 1..Min(script_pc - 2, Len(tab_order))}

====
